---- MODULE Spec2Model ----
(***************************************************************************)
(* CrossSave-Cloud: the local agent of the save-file synchronisation       *)
(* service.  The module models                                             *)
(*   - the sync decision procedure (core/sync.rs, determine_sync_action),  *)
(*   - the History store (core/history.rs),                                *)
(*   - the durable upload queue and its processor (core/sync.rs,           *)
(*     UploadQueue),                                                       *)
(*   - the reconciliation loop of the sync engine (core/sync.rs,           *)
(*     SyncManager::start_background_task) against the save catalog of the *)
(*     bundled server (cloud/server/src/routes/save.rs).                   *)
(* Option<T> values are sequences of length 0 (None) or 1 (Some).          *)
(***************************************************************************)
EXTENDS Integers, Sequences, FiniteSets, TLC

\* ------------------------------------------------------------------------
\* Bounds of the model
\* ------------------------------------------------------------------------
MaxTs == 4           \* timestamps of decision inputs range over 0..MaxTs
MaxRemote == 2       \* longest remote version list handed to the decision
WrapModulus == 1073741824  \* stands for 2^64: what a wrapping u64 subtraction adds

MaxVids == 3         \* version ids of the History specification are 1..MaxVids
MaxLimit == 2        \* retention limits set by set_policy range over 1..MaxLimit

MaxJobs == 2         \* add_job calls accepted in one behaviour
MaxCrashes == 1      \* process crashes (followed by a restart) in one behaviour
MaxSyncJobs == 4     \* add_job calls accepted in one behaviour of the sync engine
MaxFails == 1        \* failed upload attempts in one behaviour of the sync engine
MaxStarts == 2       \* start_background_task calls in one behaviour, setup's included
MaxTriggers == 2     \* triggers counted during one pass
MaxNameLen == 3      \* path components of the name of an archive entry
MaxEntries == 2      \* entries of a downloaded archive
MaxRaw == 3          \* raw events the observer sends to one processor
MaxWatchStarts == 2  \* watcher instances made in one behaviour
MaxEvents == 2       \* events of the sync loop kept in its log
MaxUuids == 2        \* device ids generated in one behaviour
MaxAttempts == 2     \* upload attempts in one behaviour of perform_upload
MaxGameIdLen == 258  \* bytes of the longest game id handed to validate_game_id
MaxWrites == 3       \* read-modify-write sequences on the settings in one behaviour
MaxCalls == 3        \* signup and login calls against the server
MaxRequests == 2     \* requests of one user that the server handles at a time
MaxIdChars == 4      \* characters of the longest game id of the version catalog

NoVid == 0
NumProc == 1         \* start_background_task calls made by the application's setup
MaxRetries == 3
DEFAULT_RETENTION == 10
DVids == 1..2
DHashes == 1..2
DDevices == 1..2

VARIABLES
    rt,          \* one save version on its way through upload and download
    zip          \* the extraction loop of perform_download: entries read, paths created

VARIABLES
    wInst,       \* WatcherManager.inner: Option<WatcherInstance>, an instance being its number
    wStarts,     \* instances made so far
    wPc,         \* position of a stop call: "none", or "abort" after the stop signal was sent
    wTask,       \* the processor task: "none", "select", "ended", "aborted"
    wChan,       \* the event channel: kinds of the raw events not received yet
    wStop,       \* the stop channel holds the stop signal
    wPending,    \* pending_events for the watched path: Option<WatchEventType>
    wTimer,      \* ticks left before debounce_timer fires
    wEmitted,    \* event types of the fs-events emitted for the path, in order
    wRaw,        \* kinds of the raw events the observer has sent, in order
    wSpan,       \* ticks since the first raw event, up to Debounce
    wWithin,     \* every raw event came less than Debounce after the first
    wOwed,       \* Option: the event that was pending when stop was called, until it is emitted
    wCall        \* the last start or stop_watcher call: inputs, instance before it, result

wvars == <<wInst, wStarts, wPc, wTask, wChan, wStop, wPending, wTimer, wEmitted, wRaw,
           wSpan, wWithin, wOwed, wCall>>

VARIABLES
    sLog         \* the conflict-detected and cloud-list-error events of the sync loop, in order

VARIABLES
    setMem,      \* SettingsManager.state: the AppSettings in memory
    setFile,     \* Option: the AppSettings that settings.json holds
    setCall,     \* the last update_settings call: memory before it and its result
    cUuids,      \* device ids that default_device_id has generated
    cFirst       \* Option: settings.cloud.device_id at the end of the first run

cvars == <<setMem, setFile, setCall, cUuids, cFirst>>

VARIABLES
    up,          \* the perform_upload call in progress: position, steps and events so far
    val,         \* a game id handed to the server's validation, and the Option of the answer
    ws,          \* the settings store shared by concurrent writers, and each writer's
                 \* position, snapshot and intended change
    ls,          \* a list_versions call against the server: the game asked for, the catalog, the answer
    sv,          \* the server's objects of one user (save catalog, device list) and the requests in flight
    au           \* the server's accounts: email_lookup objects, user metadata objects by user_id, the auth calls so far

yvars == <<up, val, ws, ls, sv, au>>

xvars == <<rt, zip, wvars, sLog, cvars, yvars>>

VARIABLES
    dLocal,      \* Option<HistoryEntry> handed to determine_sync_action
    dRemote,     \* &[CloudVersionSummary]
    dDevice,     \* _current_device
    dResult      \* Option<SyncDecision>: the value returned for these inputs

dvars == <<dLocal, dRemote, dDevice, dResult, xvars>>

VARIABLES
    hCache,      \* HistoryManager.cache: game_id -> Vec<HistoryEntry> (domain = cached games)
    hLimit,      \* HistoryManager.retention_limit
    hAuto,       \* HistoryManager.auto_delete
    hDirs,       \* game directories that exist under base_dir
    hArch,       \* archive files {version_id}.zip on disk: [game, vid, sha]
    hMeta,       \* metadata files {version_id}.json on disk: the SaveMetadata they hold
    hSave,       \* Option: the metadata of a save_to_history call between insert_entry and trim_cache_for_game
    hOp          \* the last History operation and, for a read, the value it returned

hvars == <<hCache, hLimit, hAuto, hDirs, hArch, hMeta, hSave, hOp>>

VARIABLES
    queue,        \* UploadQueue.queue: VecDeque<UploadJob>
    active,       \* UploadQueue.active_job: Option<UploadJob>
    qDisk,        \* contents of data/sync_queue.json
    qLock,        \* holder of the queue mutex while it is held across an await
    online,       \* online_status: AtomicBool
    notifyPermit, \* the permit stored in UploadQueue.notify
    pPc,          \* position of each queue processor task in process_queue
    pJob,         \* the local `job` of each queue processor
    aPc,          \* position of the sync loop task with respect to the queue
    qMode,        \* settings.cloud_mode as read by perform_upload
    jobs,         \* record of every accepted add_job call, by order of acceptance
    qCompleted,   \* job ids of the sync://upload-complete events, in order of emission
    qRetry,       \* Option: the job whose last attempt failed and was put back
    qOwed,        \* version ids of the jobs whose add_job had returned and that were not
                  \* terminal at the last crash
    qCrashes      \* number of crashes so far

qvars == <<queue, active, qDisk, qLock, online, notifyPermit, pPc, pJob, aPc, qMode,
           jobs, qCompleted, qRetry, qOwed, qCrashes>>

VARIABLES
    lPc,          \* position of the sync loop task spawned by each start_background_task call
    running,      \* SyncManager.running: AtomicBool
    sTrigger,     \* number of permits stored in SyncManager.sync_trigger
    backend,      \* the CloudBackend variant installed in the shared cell
    mPc,          \* position of the update_cloud_mode call in progress
    mTarget,      \* its parsed_mode
    trigSeen,     \* triggers that have arrived during the running pass
    pausedAt      \* Option: games still to visit when pause() was called during a pass,
                  \* until the next resume()

evars == <<lPc, running, sTrigger, backend, mPc, mTarget, trigSeen, pausedAt>>

VARIABLES
    sPc,          \* position of the sync loop: waiting for a tick, or inside a cycle
    sGames,       \* the games of the running cycle that are still to be visited
    paused,       \* SyncManager.paused: AtomicBool
    rCatalog,     \* the account's metadata.versions on the server, newest insertion first
    sFails        \* upload attempts that have failed so far

svars == <<sPc, sGames, paused, rCatalog, sFails, evars>>

vars == <<dvars, hvars, qvars, svars>>

\* ------------------------------------------------------------------------
\* Sync decision (pure function)
\* ------------------------------------------------------------------------
Upload == [kind |-> "Upload", vid |-> NoVid]
Download(v) == [kind |-> "Download", vid |-> v]
Conflict == [kind |-> "Conflict", vid |-> NoVid]
Noop == [kind |-> "Noop", vid |-> NoVid]

\* u64 subtraction as the release build computes it (wrapping)
USub(a, b) == IF a >= b THEN a - b ELSE a - b + WrapModulus

\* Iterator::max_by_key(|v| v.timestamp): the LAST element of maximal key
RECURSIVE MaxByKeyFrom(_, _, _)
MaxByKeyFrom(s, i, best) ==
    IF i > Len(s) THEN best
    ELSE MaxByKeyFrom(s, i + 1, IF s[i].ts >= best.ts THEN s[i] ELSE best)

MaxByKey(s) == IF s = <<>> THEN <<>> ELSE <<MaxByKeyFrom(s, 2, s[1])>>

TimeDiffWrapping(cloud_time, local_time) == USub(cloud_time, local_time)

TimeDiff(cloud_time, local_time) ==
    IF cloud_time > local_time THEN USub(cloud_time, local_time)
    ELSE USub(local_time, cloud_time)

ConflictWindowStrict(time_diff) == time_diff < 2

ConflictWindow(time_diff) == time_diff <= 2

LatestCloudFirst(cloud_versions) ==
    IF cloud_versions = <<>> THEN <<>> ELSE <<cloud_versions[1]>>

LatestCloud(cloud_versions) == MaxByKey(cloud_versions)

determine_sync_action(local_entry, cloud_versions, current_device) ==
    LET latest_cloud == LatestCloud(cloud_versions) IN
    IF local_entry # <<>> /\ latest_cloud = <<>> THEN Upload
    ELSE IF local_entry = <<>> /\ latest_cloud # <<>> THEN Download(latest_cloud[1].vid)
    ELSE IF local_entry = <<>> /\ latest_cloud = <<>> THEN Noop
    ELSE LET local == local_entry[1]
             cloud == latest_cloud[1]
             local_time == local.ts
             cloud_time == cloud.ts
         IN  IF cloud.sha = local.hash THEN Noop
             ELSE IF ConflictWindow(TimeDiff(cloud_time, local_time)) THEN Conflict
             ELSE IF cloud_time > local_time THEN Download(cloud.vid)
             ELSE Upload

\* ------------------------------------------------------------------------
\* History store (core/history.rs)
\* ------------------------------------------------------------------------
HGames == {"mario", "zelda"}
HVids == 1..MaxVids
HLimits == 1..MaxLimit

\* version_id is derived from the timestamp: equal ids have equal timestamps,
\* and two ids may share one timestamp
TsOf(v) == (v + 1) \div 2

\* SaveMetadata handed to save_to_history by the packager
HMetas == {[game |-> g, vid |-> v, ts |-> TsOf(v), hash |-> v] : g \in HGames, v \in HVids}

Range(s) == {s[i] : i \in 1..Len(s)}

\* the record of the last operation on the History store
HOp(name) == [name |-> name, seen |-> <<>>, evicted |-> {}]

\* a trimming operation, with the entries enforce_retention logged as removed
HTrim(gone) == [name |-> "trim", seen |-> <<>>, evicted |-> gone]

\* a read, with the vector it returned
HList(entries) == [name |-> "list", seen |-> <<entries>>, evicted |-> {}]

\* one step of a stable sort by timestamp, newest first: e goes after every
\* element whose timestamp is not smaller
RECURSIVE InsertDesc(_, _)
InsertDesc(sorted, e) ==
    IF sorted = <<>> THEN <<e>>
    ELSE IF Head(sorted).ts >= e.ts THEN <<Head(sorted)>> \o InsertDesc(Tail(sorted), e)
    ELSE <<e>> \o sorted

\* sort_by(|a, b| b.metadata.timestamp.cmp(&a.metadata.timestamp)), stable
RECURSIVE SortDesc(_)
SortDesc(s) ==
    IF s = <<>> THEN <<>>
    ELSE InsertDesc(SortDesc(SubSeq(s, 1, Len(s) - 1)), s[Len(s)])

EntryFile(e) == [game |-> e.game, vid |-> e.vid]
FileOf(f) == [game |-> f.game, vid |-> f.vid]

\* remove_files: both files of the entry
RemoveArch(arch, removed) == {f \in arch : FileOf(f) \notin {EntryFile(e) : e \in removed}}
RemoveMeta(meta, removed) == {m \in meta : FileOf(m) \notin {EntryFile(e) : e \in removed}}

\* enforce_retention: what stays in the vector, and what is popped
KeptPopFront(entries, limit) ==
    IF Len(entries) > limit THEN SubSeq(entries, Len(entries) - limit + 1, Len(entries)) ELSE entries

Kept(entries, limit) ==
    IF Len(entries) > limit THEN SubSeq(entries, 1, limit) ELSE entries

Popped(entries, limit) == {e \in Range(entries) : e \notin Range(Kept(entries, limit))}

\* load_entry succeeds for the metadata files of the game whose archive exists
Loadable(g) == {m \in hMeta : m.game = g /\ \E f \in hArch : FileOf(f) = FileOf(m)}


\* the complete (archive, metadata) pairs base_dir can hold at start
InitialDisks == SUBSET {[game |-> g, vid |-> v] : g \in HGames, v \in HVids}

\* the orders in which load_history_entries can return a set of metadata records
SortedLoads(S) ==
    {s \in [1..Cardinality(S) -> S] :
        /\ \A i, j \in 1..Cardinality(S) : i # j => s[i] # s[j]
        /\ \A i, j \in 1..Cardinality(S) : i < j => s[i].ts >= s[j].ts}

\* HistoryManager::init: scan base_dir, build the cache, trim when auto_delete
HistoryInit ==
    /\ \E d \in InitialDisks, limit \in HLimits, auto \in BOOLEAN :
        LET metas == {m \in HMetas : FileOf(m) \in d}
            archs == {[game |-> m.game, vid |-> m.vid, sha |-> m.hash] : m \in metas}
            dirs == {f.game : f \in d}
            ofGame(g) == {m \in metas : m.game = g}
        IN  /\ hDirs = dirs
            /\ \E load \in [dirs -> UNION {SortedLoads(ofGame(g)) : g \in HGames}] :
                   /\ \A g \in dirs : load[g] \in SortedLoads(ofGame(g))
                   /\ hCache = [g \in dirs |-> IF auto THEN Kept(load[g], limit) ELSE load[g]]
                   /\ LET gone == IF auto THEN UNION {Popped(load[g], limit) : g \in dirs} ELSE {}
                      IN  /\ hArch = RemoveArch(archs, gone)
                          /\ hMeta = RemoveMeta(metas, gone)
            /\ hLimit = limit
            /\ hAuto = auto
    /\ hSave = <<>>
    /\ hOp = HOp("other")

HistoryIdle ==
    /\ hCache = <<>>
    /\ hLimit = DEFAULT_RETENTION
    /\ hAuto = TRUE
    /\ hDirs = {}
    /\ hArch = {}
    /\ hMeta = {}
    /\ hSave = <<>>
    /\ hOp = HOp("other")

\* ---- History operations -------------------------------------------------
CacheWith(cache, g, entries) ==
    [k \in DOMAIN cache \cup {g} |-> IF k = g THEN entries ELSE cache[k]]

\* a push without the retain and the sort of insert_entry
PushEntry(history, entry) == Append(history, entry)

\* insert_entry: drop the entry of the same version_id, push, sort
InsertEntry(history, entry) ==
    SortDesc(Append(SelectSeq(history, LAMBDA existing : existing.vid # entry.vid), entry))

\* save_to_history up to the end of insert_entry: create the game directory,
\* copy the archive, write the metadata file, insert the entry into the cache
SaveInsert(m, sha) ==
    /\ hSave = <<>>
    /\ hDirs' = hDirs \cup {m.game}
    /\ hArch' = {f \in hArch : FileOf(f) # FileOf(m)} \cup {[game |-> m.game, vid |-> m.vid, sha |-> sha]}
    /\ hMeta' = {x \in hMeta : FileOf(x) # FileOf(m)} \cup {m}
    /\ LET history == IF m.game \in DOMAIN hCache THEN hCache[m.game] ELSE <<>>
       IN  hCache' = CacheWith(hCache, m.game, InsertEntry(history, m))
    /\ hSave' = <<m>>
    /\ hOp' = HOp("other")
    /\ UNCHANGED <<hLimit, hAuto>>

\* the games trim_cache_for_game / trim_all pass to enforce_retention
TrimGameOnly(g) == {g} \cap DOMAIN hCache
TrimNothing(g) == {}

TrimTargets(g) == TrimGameOnly(g)

\* enforce_retention on the cached vectors of the games in gs
EnforceOn(gs, limit) ==
    /\ hCache' = [k \in DOMAIN hCache |-> IF k \in gs THEN Kept(hCache[k], limit) ELSE hCache[k]]
    /\ LET gone == UNION {Popped(hCache[k], limit) : k \in gs}
       IN  /\ hArch' = RemoveArch(hArch, gone)
           /\ hMeta' = RemoveMeta(hMeta, gone)
           /\ hOp' = HTrim(gone)

\* save_to_history from trim_cache_for_game on: the cache mutex is taken a
\* second time, the vector is trimmed, Ok(entry) is returned
SaveTrim ==
    /\ hSave # <<>>
    /\ IF hAuto
       THEN EnforceOn(TrimTargets(hSave[1].game), hLimit)
       ELSE hOp' = HTrim({}) /\ UNCHANGED <<hCache, hArch, hMeta>>
    /\ hSave' = <<>>
    /\ UNCHANGED <<hLimit, hAuto, hDirs>>

\* set_policy: store both values, then trim_all when auto_delete
SetPolicy(retention_limit, auto_delete) ==
    /\ hLimit' = retention_limit
    /\ hAuto' = auto_delete
    /\ IF auto_delete
       THEN EnforceOn(DOMAIN hCache, retention_limit)
       ELSE hOp' = HTrim({}) /\ UNCHANGED <<hCache, hArch, hMeta>>
    /\ UNCHANGED <<hDirs, hSave>>

\* delete_history_item: remove the entry and its files; NotFound otherwise
DeleteHistoryItem(g, v) ==
    /\ g \in DOMAIN hCache
    /\ \E i \in 1..Len(hCache[g]) :
        /\ hCache[g][i].vid = v
        /\ \A j \in 1..(i - 1) : hCache[g][j].vid # v
        /\ hCache' = [hCache EXCEPT ![g] = SubSeq(@, 1, i - 1) \o SubSeq(@, i + 1, Len(@))]
        /\ hArch' = RemoveArch(hArch, {hCache[g][i]})
        /\ hMeta' = RemoveMeta(hMeta, {hCache[g][i]})
    /\ hOp' = HOp("other")
    /\ UNCHANGED <<hLimit, hAuto, hDirs, hSave>>

\* clear_all: remove base_dir and everything below it, clear the cache
ClearAll ==
    /\ hDirs' = {}
    /\ hArch' = {}
    /\ hMeta' = {}
    /\ hCache' = <<>>
    /\ hOp' = HOp("other")
    /\ UNCHANGED <<hLimit, hAuto, hSave>>

\* list_history: the cached vector (sorted in place), or the entries loaded
\* from the game directory and trimmed, or nothing
ListHistory(g) ==
    /\ IF g \in DOMAIN hCache
       THEN /\ hCache' = [hCache EXCEPT ![g] = SortDesc(@)]
            /\ hOp' = HList(SortDesc(hCache[g]))
            /\ UNCHANGED <<hArch, hMeta>>
       ELSE IF g \in hDirs
       THEN \E loaded \in SortedLoads(Loadable(g)) :
                LET kept == IF hAuto THEN Kept(loaded, hLimit) ELSE loaded
                    gone == IF hAuto THEN Popped(loaded, hLimit) ELSE {}
                IN  /\ hCache' = CacheWith(hCache, g, kept)
                    /\ hArch' = RemoveArch(hArch, gone)
                    /\ hMeta' = RemoveMeta(hMeta, gone)
                    /\ hOp' = HList(kept)
       ELSE /\ hOp' = HList(<<>>)
            /\ UNCHANGED <<hCache, hArch, hMeta>>
    /\ UNCHANGED <<hLimit, hAuto, hDirs, hSave>>

\* the operations as the command handlers and the sync engine invoke them
HSaveToHistory == (\E m \in HMetas : SaveInsert(m, m.hash)) /\ UNCHANGED <<dvars, qvars, svars>>
HSaveTrim == SaveTrim /\ UNCHANGED <<dvars, qvars, svars>>
HSetPolicy == (\E l \in HLimits, a \in BOOLEAN : SetPolicy(l, a)) /\ UNCHANGED <<dvars, qvars, svars>>
HDeleteHistoryItem == (\E g \in HGames, v \in HVids : DeleteHistoryItem(g, v)) /\ UNCHANGED <<dvars, qvars, svars>>
HClearAll == ClearAll /\ UNCHANGED <<dvars, qvars, svars>>
HListHistory == (\E g \in HGames : ListHistory(g)) /\ UNCHANGED <<dvars, qvars, svars>>

HistoryNext ==
    \/ HSaveToHistory
    \/ HSaveTrim
    \/ HSetPolicy
    \/ HDeleteHistoryItem
    \/ HClearAll
    \/ HListHistory

RoundTripIdle == rt = [stage |-> "idle"]

UnzipIdle == zip = [n |-> 0, entry |-> <<>>, created |-> {}, result |-> "none"]

Debounce == 2        \* DEFAULT_DEBOUNCE_MS, in ticks of the clock
NoCall == [op |-> "none", paths |-> "none", observer |-> "none", before |-> <<>>, ret |-> "none"]

\* WatcherManager::default(): no instance, no processor
WatcherIdle ==
    /\ wInst = <<>>
    /\ wStarts = 0
    /\ wPc = "none"
    /\ wTask = "none"
    /\ wChan = <<>>
    /\ wStop = FALSE
    /\ wPending = <<>>
    /\ wTimer = Debounce
    /\ wEmitted = <<>>
    /\ wRaw = <<>>
    /\ wSpan = 0
    /\ wWithin = TRUE
    /\ wOwed = <<>>
    /\ wCall = NoCall

EventsIdle == sLog = <<>>

EmptyId == 0         \* the empty device_id of CloudSettings::default()
MIN_RETENTION == 5
MAX_RETENTION == 20

\* the settings of an installation that has not run yet, as written by a
\* first successful update_settings
DefaultSettings == [retention_limit |-> DEFAULT_RETENTION, device_id |-> EmptyId, api_key |-> 0]
NoSettingsCall == [ret |-> "none", before |-> DefaultSettings]

SettingsIdle ==
    /\ setMem = DefaultSettings
    /\ setFile = <<DefaultSettings>>
    /\ setCall = NoSettingsCall
    /\ cUuids = 0
    /\ cFirst = <<>>

NoAttempt == [pc |-> "idle", n |-> 0, log |-> <<>>, signed |-> <<>>, prev |-> <<>>,
              put |-> "none", sent |-> <<>>, ret |-> "none"]
UploadIdle == up = NoAttempt

ValidationIdle == val = [len |-> 0, ret |-> <<>>]

Writers == {"update_cloud_mode", "ensure_device_registered", "ensure_device_identity"}
SharedDefaults == [retention_limit |-> DEFAULT_RETENTION, cloud_mode |-> "Off",
                   has_registered_device |-> FALSE, device_id |-> EmptyId]
NoWrite == [pc |-> "idle", snap |-> SharedDefaults, target |-> <<>>]
WritersIdle == ws = [mem |-> SharedDefaults, file |-> <<SharedDefaults>>, runs |-> 0,
                     task |-> [w \in Writers |-> NoWrite]]

ListingIdle == ls = [game_id |-> <<>>, catalog |-> <<>>, ret |-> <<>>]

Reqs == 1..MaxRequests
NoRequest == [pc |-> "idle", kind |-> "none", id |-> 0, snap |-> <<>>, ret |-> "none"]
ServerIdle == sv = [saves |-> <<>>, devices |-> <<>>, req |-> [r \in Reqs |-> NoRequest]]

\* the emails that requests carry: two spellings of one address, another
\* address, and one that validate_email rejects
RawEmails == {<<"a", "@", "b", ".", "a">>, <<" ", "A", "@", "b", ".", "a">>,
              <<"b", "@", "b", ".", "a">>, <<"@", "a">>}
AuthIdle == au = [lookup |-> <<>>, users |-> <<>>, uuids |-> 0, calls |-> <<>>]

LaterIdle == UploadIdle /\ ValidationIdle /\ WritersIdle /\ ListingIdle /\ ServerIdle /\ AuthIdle

ExtraIdle == RoundTripIdle /\ UnzipIdle /\ WatcherIdle /\ EventsIdle /\ SettingsIdle /\ LaterIdle

DecisionIdle ==
    /\ dLocal = <<>>
    /\ dRemote = <<>>
    /\ dDevice = 1
    /\ dResult = <<>>

DecideIdle == DecisionIdle /\ ExtraIdle

\* ------------------------------------------------------------------------
\* Upload queue (core/sync.rs, UploadQueue)
\* ------------------------------------------------------------------------
\* the queue processor tasks start_background_task can have spawned; a task
\* not spawned yet is "off"
Procs == 1..MaxStarts

\* the processors running after the application's setup
StartedProcs == [p \in Procs |-> IF p <= NumProc THEN "loop" ELSE "off"]
QVids == 1..2

\* the UploadJob the sync loop builds for a version: retries 0, Pending
NewJob(id, m) ==
    [id |-> id, vid |-> m.vid, game |-> m.game, hash |-> m.hash, retries |-> 0,
     status |-> "Pending"]

\* save_to_disk: the Pending and Uploading jobs of the FIFO
Snapshot(q) == SelectSeq(q, LAMBDA job : job.status \in {"Pending", "Uploading"})

\* load_from_disk: Uploading is rewritten to Pending
Reloaded(disk) ==
    [i \in 1..Len(disk) |-> IF disk[i].status = "Uploading"
                            THEN [disk[i] EXCEPT !.status = "Pending"] ELSE disk[i]]

QueueInit ==
    /\ queue = <<>>
    /\ active = <<>>
    /\ qDisk = <<>>
    /\ qLock = "free"
    /\ online = TRUE
    /\ notifyPermit = FALSE
    /\ pPc = StartedProcs
    /\ pJob = [p \in Procs |-> <<>>]
    /\ aPc = "load"
    /\ qMode = "Official"
    /\ jobs = <<>>
    /\ qCompleted = <<>>
    /\ qRetry = <<>>
    /\ qOwed = {}
    /\ qCrashes = 0

\* ---- the caller of add_job (the sync loop task) -------------------------
\* sync loop start: load_from_disk
LoadFromDisk ==
    /\ aPc = "load"
    /\ qLock = "free"
    /\ queue' = Reloaded(qDisk)
    /\ notifyPermit' = (notifyPermit \/ qDisk # <<>>)
    /\ aPc' = "idle"
    /\ UNCHANGED <<active, qDisk, qLock, online, pPc, pJob, qMode, jobs, qCompleted, qRetry,
                   qOwed, qCrashes>>

HasVersion(q, v) == \E i \in 1..Len(q) : q[i].vid = v

IsDuplicate(q, v) == HasVersion(q, v)

\* add_job up to the release of the queue mutex and notify_one: push_back
\* unless a queued job has the same version_id
AddJobPush(m) ==
    /\ aPc = "idle"
    /\ qLock = "free"
    /\ IF ~IsDuplicate(queue, m.vid)
       THEN /\ queue' = Append(queue, NewJob(Len(jobs) + 1, m))
            /\ jobs' = Append(jobs, [vid |-> m.vid, attempts |-> 0, term |-> "none",
                                     ahead |-> {}])
            /\ notifyPermit' = TRUE
            /\ aPc' = "added"
       ELSE UNCHANGED <<queue, jobs, notifyPermit, aPc>>
    /\ UNCHANGED <<active, qDisk, qLock, online, pPc, pJob, qMode, qCompleted, qRetry,
                   qOwed, qCrashes>>

\* add_job, rest: emit_status and save_to_disk, then return
AddJobSave ==
    /\ aPc = "added"
    /\ qLock = "free"
    /\ qDisk' = Snapshot(queue)
    /\ aPc' = "idle"
    /\ UNCHANGED <<queue, active, qLock, online, notifyPermit, pPc, pJob, qMode, jobs,
                   qCompleted, qRetry, qOwed, qCrashes>>

\* clear: q.clear() and then emit_status, which locks the queue mutex again
\* while the guard `q` is still alive: the call never returns and never
\* releases the mutex
Clear ==
    /\ qLock = "free"
    /\ queue' = <<>>
    /\ qLock' = "clear"
    /\ UNCHANGED <<active, qDisk, online, notifyPermit, pPc, pJob, aPc, qMode, jobs,
                   qCompleted, qRetry, qOwed, qCrashes>>

\* ---- process_queue, one step per await point ----------------------------
SetPc(p, pc) == [pPc EXCEPT ![p] = pc]
TheJob(p) == pJob[p][1]

\* loop top: the online flag is read
ProcCheckOnline(p) ==
    /\ pPc[p] = "loop"
    /\ pPc' = SetPc(p, IF online THEN "pop" ELSE "wo_check")
    /\ UNCHANGED <<queue, active, qDisk, qLock, online, notifyPermit, pJob, aPc, qMode, jobs,
                   qCompleted, qRetry, qOwed, qCrashes>>

\* wait_for_online, loop condition: the flag is read again
ProcWaitForOnline(p) ==
    /\ pPc[p] = "wo_check"
    /\ pPc' = SetPc(p, IF online THEN "loop" ELSE "wo_register")
    /\ UNCHANGED <<queue, active, qDisk, qLock, online, notifyPermit, pJob, aPc, qMode, jobs,
                   qCompleted, qRetry, qOwed, qCrashes>>

\* wait_for_online, loop body: online_notify.notified() is created and
\* awaited; from here on a notify_waiters call wakes the task
ProcAwaitOnline(p) ==
    /\ pPc[p] = "wo_register"
    /\ pPc' = SetPc(p, "wait_online")
    /\ UNCHANGED <<queue, active, qDisk, qLock, online, notifyPermit, pJob, aPc, qMode, jobs,
                   qCompleted, qRetry, qOwed, qCrashes>>

\* pop_front under the queue mutex
ProcPop(p) ==
    /\ pPc[p] = "pop"
    /\ qLock = "free"
    /\ IF queue = <<>>
       THEN /\ pPc' = SetPc(p, "idle")
            /\ UNCHANGED <<queue, pJob>>
       ELSE /\ pJob' = [pJob EXCEPT ![p] = <<Head(queue)>>]
            /\ queue' = Tail(queue)
            /\ pPc' = SetPc(p, "set_active")
    /\ UNCHANGED <<active, qDisk, qLock, online, notifyPermit, aPc, qMode, jobs, qCompleted,
                   qRetry, qOwed, qCrashes>>

\* empty queue: select! on notify (a stored permit is consumed); the other
\* branch, online_notify, is woken by the connectivity monitor
ProcIdleWake(p) ==
    /\ pPc[p] = "idle"
    /\ notifyPermit
    /\ notifyPermit' = FALSE
    /\ pPc' = SetPc(p, "loop")
    /\ UNCHANGED <<queue, active, qDisk, qLock, online, pJob, aPc, qMode, jobs, qCompleted,
                   qRetry, qOwed, qCrashes>>

\* *active = Some(job.clone())
ProcSetActive(p) ==
    /\ pPc[p] = "set_active"
    /\ active' = pJob[p]
    /\ pPc' = SetPc(p, "mark")
    /\ UNCHANGED <<queue, qDisk, qLock, online, notifyPermit, pJob, aPc, qMode, jobs,
                   qCompleted, qRetry, qOwed, qCrashes>>

\* emit_status, job.status = Uploading, save_to_disk, and perform_upload is
\* entered: an upload attempt of the job starts
ProcStartUpload(p) ==
    /\ pPc[p] = "mark"
    /\ qLock = "free"
    /\ pJob' = [pJob EXCEPT ![p] = <<[TheJob(p) EXCEPT !.status = "Uploading"]>>]
    /\ qDisk' = Snapshot(queue)
    /\ jobs' = [jobs EXCEPT ![TheJob(p).id] =
                   [@ EXCEPT !.attempts = @ + 1,
                             !.ahead = IF jobs[TheJob(p).id].attempts = 0
                                       THEN {i \in 1..(TheJob(p).id - 1) : jobs[i].term = "none"}
                                       ELSE @]]
    /\ qRetry' = IF qRetry # <<>> /\ qRetry[1].id = TheJob(p).id THEN <<>> ELSE qRetry
    /\ pPc' = SetPc(p, "upload")
    /\ UNCHANGED <<queue, active, qLock, online, notifyPermit, aPc, qMode, qCompleted, qOwed,
                   qCrashes>>

\* perform_upload returns Ok: sync://upload-complete was emitted
ProcUploadOk(p) ==
    /\ pPc[p] = "upload"
    /\ qMode # "Off"
    /\ pJob' = [pJob EXCEPT ![p] = <<[TheJob(p) EXCEPT !.status = "Completed"]>>]
    /\ jobs' = [jobs EXCEPT ![TheJob(p).id].term = "completed"]
    /\ qCompleted' = Append(qCompleted, TheJob(p).id)
    /\ pPc' = SetPc(p, "final_save")
    /\ UNCHANGED <<queue, active, qDisk, qLock, online, notifyPermit, aPc, qMode, qRetry,
                   qOwed, qCrashes>>

RetryAlways(job) == job.retries <= MaxRetries

\* if job.retries < 3
MayRetry(job) == job.retries < MaxRetries

RetriedSame(job) == job

\* job.retries += 1
Retried(job) == [job EXCEPT !.retries = @ + 1]

\* perform_upload returns Err: retry, or drop the job as Failed
ProcUploadFail(p) ==
    /\ pPc[p] = "upload"
    /\ IF MayRetry(TheJob(p))
       THEN /\ pJob' = [pJob EXCEPT ![p] = <<Retried(TheJob(p))>>]
            /\ qRetry' = <<[id |-> TheJob(p).id, retries |-> TheJob(p).retries]>>
            /\ pPc' = SetPc(p, "push_front")
            /\ UNCHANGED jobs
       ELSE /\ pJob' = [pJob EXCEPT ![p] = <<[TheJob(p) EXCEPT !.status = "Failed"]>>]
            /\ jobs' = [jobs EXCEPT ![TheJob(p).id].term = "failed"]
            /\ pPc' = SetPc(p, "final_save")
            /\ UNCHANGED qRetry
    /\ UNCHANGED <<queue, active, qDisk, qLock, online, notifyPermit, aPc, qMode, qCompleted,
                   qOwed, qCrashes>>

RequeueBack(q, job) == Append(q, job)

\* q.push_front(job)
Requeue(q, job) == <<job>> \o q

\* the retry branch takes the queue mutex, puts the job back and sleeps
\* 2^retries seconds with the guard alive
ProcPushFront(p) ==
    /\ pPc[p] = "push_front"
    /\ qLock = "free"
    /\ queue' = Requeue(queue, TheJob(p))
    /\ qLock' = "proc"
    /\ pPc' = SetPc(p, "backoff")
    /\ UNCHANGED <<active, qDisk, online, notifyPermit, pJob, aPc, qMode, jobs, qCompleted,
                   qRetry, qOwed, qCrashes>>

\* the sleep ends and the guard is dropped
ProcBackoffDone(p) ==
    /\ pPc[p] = "backoff"
    /\ qLock' = "free"
    /\ pPc' = SetPc(p, "final_save")
    /\ UNCHANGED <<queue, active, qDisk, online, notifyPermit, pJob, aPc, qMode, jobs,
                   qCompleted, qRetry, qOwed, qCrashes>>

\* save_to_disk after the match
ProcFinalSave(p) ==
    /\ pPc[p] = "final_save"
    /\ qLock = "free"
    /\ qDisk' = Snapshot(queue)
    /\ pPc' = SetPc(p, "clear_active")
    /\ UNCHANGED <<queue, active, qLock, online, notifyPermit, pJob, aPc, qMode, jobs,
                   qCompleted, qRetry, qOwed, qCrashes>>

\* *active = None
ProcClearActive(p) ==
    /\ pPc[p] = "clear_active"
    /\ active' = <<>>
    /\ pJob' = [pJob EXCEPT ![p] = <<>>]
    /\ pPc' = SetPc(p, "emit")
    /\ UNCHANGED <<queue, qDisk, qLock, online, notifyPermit, aPc, qMode, jobs, qCompleted,
                   qRetry, qOwed, qCrashes>>

\* the closing emit_status (get_status locks the queue mutex)
ProcEmitStatus(p) ==
    /\ pPc[p] = "emit"
    /\ qLock = "free"
    /\ pPc' = SetPc(p, "loop")
    /\ UNCHANGED <<queue, active, qDisk, qLock, online, notifyPermit, pJob, aPc, qMode, jobs,
                   qCompleted, qRetry, qOwed, qCrashes>>

\* signal_online: notify_waiters wakes the tasks waiting on online_notify
WokenByOnline(pcs) ==
    [p \in Procs |-> IF pcs[p] = "wait_online" THEN "wo_check"
                     ELSE IF pcs[p] = "idle" THEN "loop" ELSE pcs[p]]

\* connectivity monitor, one probe: the flag is swapped and an offline to
\* online transition signals the queue
ProbeConnectivity(connected) ==
    /\ online' = connected
    /\ pPc' = IF connected /\ ~online THEN WokenByOnline(pPc) ELSE pPc
    /\ UNCHANGED <<queue, active, qDisk, qLock, notifyPermit, pJob, aPc, qMode, jobs,
                   qCompleted, qRetry, qOwed, qCrashes>>

\* add_job of the k-th accepted job has returned: only the newest job can
\* still be inside add_job
Returned(k) == ~(k = Len(jobs) /\ aPc = "added")

\* the process dies and is started again: memory is rebuilt as by
\* SyncManager::new and start_background_task, the queue file stays
Crash ==
    /\ qCrashes < MaxCrashes
    /\ qCrashes' = qCrashes + 1
    /\ queue' = <<>>
    /\ active' = <<>>
    /\ qLock' = "free"
    /\ online' = TRUE
    /\ notifyPermit' = FALSE
    /\ pPc' = StartedProcs
    /\ pJob' = [p \in Procs |-> <<>>]
    /\ aPc' = "load"
    /\ qRetry' = <<>>
    /\ qOwed' = {jobs[i].vid : i \in {k \in 1..Len(jobs) :
                                Returned(k) /\ jobs[k].term = "none"}}
    /\ UNCHANGED <<qDisk, qMode, jobs, qCompleted>>

QueueIdle == QueueInit

\* tokio::spawn(queue.process_queue(..)): not guarded by any flag
SpawnProcessor(pcs, p) == [pcs EXCEPT ![p] = "loop"]

\* a further call of start_background_task: one more queue processor is
\* spawned; the sync loop task it spawns finds the running flag set and returns
StartBackgroundTask ==
    /\ \E p \in Procs :
          /\ pPc[p] = "off"
          /\ \A other \in 1..(p - 1) : pPc[other] # "off"
          /\ pPc' = SpawnProcessor(pPc, p)
    /\ UNCHANGED <<queue, active, qDisk, qLock, online, notifyPermit, pJob, aPc, qMode, jobs,
                   qCompleted, qRetry, qOwed, qCrashes>>

\* the local entry of version v the sync loop hands to add_job
QLocal(v) == [game |-> "mario", vid |-> v, ts |-> TsOf(v), hash |-> v]

\* ---- actions of the queue specification ---------------------------------
QLoadFromDisk == LoadFromDisk /\ UNCHANGED <<dvars, hvars, svars>>
QAddJobPush ==
    /\ Len(jobs) < MaxJobs
    /\ \E v \in QVids : AddJobPush(QLocal(v))
    /\ UNCHANGED <<dvars, hvars, svars>>
QAddJobSave == AddJobSave /\ UNCHANGED <<dvars, hvars, svars>>
QClear == Clear /\ UNCHANGED <<dvars, hvars, svars>>
QProcCheckOnline == (\E p \in Procs : ProcCheckOnline(p)) /\ UNCHANGED <<dvars, hvars, svars>>
QProcWaitForOnline == (\E p \in Procs : ProcWaitForOnline(p)) /\ UNCHANGED <<dvars, hvars, svars>>
QProcAwaitOnline == (\E p \in Procs : ProcAwaitOnline(p)) /\ UNCHANGED <<dvars, hvars, svars>>
QProcPop == (\E p \in Procs : ProcPop(p)) /\ UNCHANGED <<dvars, hvars, svars>>
QProcIdleWake == (\E p \in Procs : ProcIdleWake(p)) /\ UNCHANGED <<dvars, hvars, svars>>
QProcSetActive == (\E p \in Procs : ProcSetActive(p)) /\ UNCHANGED <<dvars, hvars, svars>>
QProcStartUpload == (\E p \in Procs : ProcStartUpload(p)) /\ UNCHANGED <<dvars, hvars, svars>>
QProcUploadOk == (\E p \in Procs : ProcUploadOk(p)) /\ UNCHANGED <<dvars, hvars, svars>>
QProcUploadFail == (\E p \in Procs : ProcUploadFail(p)) /\ UNCHANGED <<dvars, hvars, svars>>
QProcPushFront == (\E p \in Procs : ProcPushFront(p)) /\ UNCHANGED <<dvars, hvars, svars>>
QProcBackoffDone == (\E p \in Procs : ProcBackoffDone(p)) /\ UNCHANGED <<dvars, hvars, svars>>
QProcFinalSave == (\E p \in Procs : ProcFinalSave(p)) /\ UNCHANGED <<dvars, hvars, svars>>
QProcClearActive == (\E p \in Procs : ProcClearActive(p)) /\ UNCHANGED <<dvars, hvars, svars>>
QProcEmitStatus == (\E p \in Procs : ProcEmitStatus(p)) /\ UNCHANGED <<dvars, hvars, svars>>
QProbeConnectivity == (\E c \in BOOLEAN : ProbeConnectivity(c)) /\ UNCHANGED <<dvars, hvars, svars>>
QCrash == Crash /\ UNCHANGED <<dvars, hvars, svars>>

QStartBackgroundTask == StartBackgroundTask /\ UNCHANGED <<dvars, hvars, svars>>

\* the queue when start_background_task can be called again
StartNext ==
    \/ QStartBackgroundTask
    \/ QLoadFromDisk
    \/ QAddJobPush
    \/ QAddJobSave
    \/ QProcCheckOnline
    \/ QProcPop
    \/ QProcIdleWake
    \/ QProcSetActive
    \/ QProcStartUpload
    \/ QProcUploadOk
    \/ QProcUploadFail
    \/ QProcPushFront
    \/ QProcBackoffDone
    \/ QProcFinalSave
    \/ QProcClearActive
    \/ QProcEmitStatus

QueueNext ==
    \/ QLoadFromDisk
    \/ QAddJobPush
    \/ QAddJobSave
    \/ QClear
    \/ QProcCheckOnline
    \/ QProcWaitForOnline
    \/ QProcAwaitOnline
    \/ QProcPop
    \/ QProcIdleWake
    \/ QProcSetActive
    \/ QProcStartUpload
    \/ QProcUploadOk
    \/ QProcUploadFail
    \/ QProcPushFront
    \/ QProcBackoffDone
    \/ QProcFinalSave
    \/ QProcClearActive
    \/ QProcEmitStatus
    \/ QProbeConnectivity
    \/ QCrash

\* ------------------------------------------------------------------------
\* Sync engine (core/sync.rs, SyncManager) and the server's version catalog
\* ------------------------------------------------------------------------
ThisDevice == 1

\* SyncManager::new, and an account without uploaded versions
\* ---- the engine state shared by every specification --------------------
Modes == {"Official", "SelfHost", "Off"}
NoMode == "none"

\* switch_cloud_backend: the variant built for a mode
BackendFor(mode) == IF mode = "Off" THEN "Disabled" ELSE mode

\* the state of the engine once setup has called start_background_task and
\* the loop task has passed its start guard
EngineIdle ==
    /\ lPc = [p \in Procs |-> IF p <= NumProc THEN "run" ELSE "off"]
    /\ running = TRUE
    /\ sTrigger = 0
    /\ backend = BackendFor("Official")
    /\ mPc = "idle"
    /\ mTarget = NoMode
    /\ trigSeen = 0
    /\ pausedAt = <<>>

SyncIdle ==
    /\ sPc = "wait"
    /\ sGames = <<>>
    /\ paused = FALSE
    /\ rCatalog = <<>>
    /\ sFails = 0
    /\ EngineIdle

\* HistoryManager::get_games: the games known to the History store
get_games == DOMAIN hCache

\* HistoryManager::get_latest_version: the newest entry of the game, if any
get_latest_version(g) ==
    IF g \in DOMAIN hCache /\ hCache[g] # <<>> THEN <<SortDesc(hCache[g])[1]>> ELSE <<>>

\* the server's filter v.game_id.to_lowercase().contains(search): the game
\* ids of the model are lower case and none is part of another
ServerMatches(search, game_id) == game_id = search

Truncate(s, limit) == IF Len(s) > limit THEN SubSeq(s, 1, limit) ELSE s

\* list_versions(game_id, Some(limit)): the server filters and sorts newest
\* first, the client sorts again and truncates
list_versions(catalog, game_id, limit) ==
    Truncate(SortDesc(SortDesc(SelectSeq(catalog, LAMBDA v : ServerMatches(game_id, v.game)))),
             limit)

MaxCatalogTs(catalog) ==
    IF catalog = <<>> THEN 0
    ELSE CHOOSE t \in {catalog[i].ts : i \in 1..Len(catalog)} :
             \A i \in 1..Len(catalog) : catalog[i].ts <= t

\* the server's clock at a request: not before any timestamp it has handed out
ServerNow(catalog) ==
    {MaxCatalogTs(catalog)} \cup {t \in 0..MaxTs : t = MaxCatalogTs(catalog) + 1}

\* notify-upload: the version is stamped with the server's time and put at the
\* front, replacing an entry of the same version_id
NotifyUpload(catalog, job, now) ==
    <<[game |-> job.game, vid |-> job.vid, ts |-> now, sha |-> job.hash]>>
        \o SelectSeq(catalog, LAMBDA v : v.vid # job.vid)

\* the decision of the sync loop for a game in the current state
DecisionFor(g) ==
    determine_sync_action(get_latest_version(g), list_versions(rCatalog, g, 1), ThisDevice)

\* the loop moves on to the next game of the cycle, or back to the select
NextGame ==
    /\ sGames' = Tail(sGames)
    /\ sPc' = IF Tail(sGames) = <<>> THEN "wait" ELSE "cycle"

Orders(S) ==
    {o \in [1..Cardinality(S) -> S] : \A i, j \in 1..Cardinality(S) : i # j => o[i] # o[j]}

\* a tick (10 s timer or trigger): the cycle starts unless cloud mode is Off,
\* the engine is paused or the flag says offline
SyncTick ==
    /\ sPc = "wait"
    /\ aPc = "idle"
    /\ IF qMode = "Off" \/ paused \/ ~online \/ get_games = {}
       THEN UNCHANGED <<sPc, sGames>>
       ELSE /\ sGames' \in Orders(get_games)
            /\ sPc' = "cycle"
    /\ UNCHANGED <<paused, rCatalog, sFails, evars>>

AtGame(g) ==
    /\ sPc = "cycle"
    /\ aPc = "idle"
    /\ sGames # <<>>
    /\ Head(sGames) = g

\* list_versions fails: an event is emitted and the loop continues
SyncListError(g) ==
    /\ AtGame(g)
    /\ NextGame
    /\ UNCHANGED <<paused, rCatalog, sFails, evars>>

\* Noop, and Conflict (an event, no mutation)
SyncNoAction(g) ==
    /\ AtGame(g)
    /\ DecisionFor(g).kind \in {"Noop", "Conflict"}
    /\ NextGame
    /\ UNCHANGED <<paused, rCatalog, sFails, evars>>

\* Upload: add_job with a job built from the local entry
SyncUpload(g) ==
    /\ AtGame(g)
    /\ DecisionFor(g).kind = "Upload"
    /\ get_latest_version(g) # <<>>
    /\ AddJobPush(get_latest_version(g)[1])
    /\ NextGame
    /\ UNCHANGED <<paused, rCatalog, sFails, evars>>

\* Download: perform_download fails at some stage
SyncDownloadFail(g) ==
    /\ AtGame(g)
    /\ DecisionFor(g).kind = "Download"
    /\ NextGame
    /\ UNCHANGED <<paused, rCatalog, sFails, evars>>

\* HistoryManager::add_version_from_cloud: the entry is ingested like a local
\* snapshot, files written, vector sorted and trimmed
add_version_from_cloud(m) ==
    LET history == IF m.game \in DOMAIN hCache THEN hCache[m.game] ELSE <<>>
        inserted == InsertEntry(history, m)
        gone == IF hAuto THEN Popped(inserted, hLimit) ELSE {}
    IN  /\ hCache' = CacheWith(hCache, m.game, IF hAuto THEN Kept(inserted, hLimit) ELSE inserted)
        /\ hDirs' = hDirs \cup {m.game}
        /\ hArch' = RemoveArch({f \in hArch : FileOf(f) # FileOf(m)}
                                  \cup {[game |-> m.game, vid |-> m.vid, sha |-> m.hash]}, gone)
        /\ hMeta' = RemoveMeta({x \in hMeta : FileOf(x) # FileOf(m)} \cup {m}, gone)
        /\ hOp' = HOp("other")
        /\ UNCHANGED <<hLimit, hAuto, hSave>>

\* Download: perform_download succeeds; the metadata of the new entry comes
\* from the server's answer to request_download_url
SyncDownloadOk(g) ==
    /\ AtGame(g)
    /\ DecisionFor(g).kind = "Download"
    /\ \E i \in 1..Len(rCatalog) :
          /\ rCatalog[i].vid = DecisionFor(g).vid
          /\ rCatalog[i].game = g
          /\ \A j \in 1..(i - 1) : ~(rCatalog[j].vid = DecisionFor(g).vid /\ rCatalog[j].game = g)
          /\ add_version_from_cloud([game |-> rCatalog[i].game, vid |-> rCatalog[i].vid,
                                     ts |-> rCatalog[i].ts, hash |-> rCatalog[i].sha])
    /\ NextGame
    /\ UNCHANGED <<paused, rCatalog, sFails, evars>>

\* ---- the sync engine with its queue, in an environment that stays online,
\* ---- unpaused and in a cloud mode other than Off -----------------------
SyncGames == HGames
OldTs == 0
NearTs == 2
RemoteTs == 3
NewTs == 6
LocalVid(g) == IF g = "mario" THEN 1 ELSE 2
OtherVid(g) == IF g = "mario" THEN 3 ELSE 4

\* what the device holds for a game at start: nothing, or one snapshot
LocalStarts(g) ==
    {<<>>} \cup {<<[game |-> g, vid |-> LocalVid(g), ts |-> t, hash |-> LocalVid(g)]>> :
                    t \in {OldTs, NearTs, NewTs}}

\* what the catalog holds for a game at start: nothing, or one version
\* uploaded by another device
RemoteStarts(g) ==
    {<<>>, <<[game |-> g, vid |-> OtherVid(g), ts |-> RemoteTs, sha |-> OtherVid(g)]>>}

\* the History store and the catalog at start
SyncStore ==
    /\ \E l \in [SyncGames -> UNION {LocalStarts(g) : g \in SyncGames}],
          r \in [SyncGames -> UNION {RemoteStarts(g) : g \in SyncGames}] :
          /\ \A g \in SyncGames : l[g] \in LocalStarts(g) /\ r[g] \in RemoteStarts(g)
          /\ hCache = [g \in {k \in SyncGames : l[k] # <<>>} |-> l[g]]
          /\ hDirs = {k \in SyncGames : l[k] # <<>>}
          /\ hMeta = UNION {Range(l[g]) : g \in SyncGames}
          /\ hArch = {[game |-> m.game, vid |-> m.vid, sha |-> m.hash] :
                         m \in UNION {Range(l[g]) : g \in SyncGames}}
          /\ rCatalog = r["mario"] \o r["zelda"]
    /\ hLimit = DEFAULT_RETENTION
    /\ hAuto = TRUE
    /\ hSave = <<>>
    /\ hOp = HOp("other")

SyncInit ==
    /\ SyncStore
    /\ sPc = "wait"
    /\ sGames = <<>>
    /\ paused = FALSE
    /\ sFails = 0
    /\ EngineIdle
    /\ QueueInit
    /\ DecideIdle

SLoadFromDisk == LoadFromDisk /\ UNCHANGED <<dvars, hvars, svars>>
SSyncTick == SyncTick /\ UNCHANGED <<dvars, hvars, qvars>>
SSyncListError == (\E g \in SyncGames : SyncListError(g)) /\ UNCHANGED <<dvars, hvars, qvars>>
SSyncNoAction == (\E g \in SyncGames : SyncNoAction(g)) /\ UNCHANGED <<dvars, hvars, qvars>>
SSyncUpload ==
    /\ Len(jobs) < MaxSyncJobs
    /\ \E g \in SyncGames : SyncUpload(g)
    /\ UNCHANGED <<dvars, hvars>>
SSyncDownloadFail == (\E g \in SyncGames : SyncDownloadFail(g)) /\ UNCHANGED <<dvars, hvars, qvars>>
SSyncDownloadOk == (\E g \in SyncGames : SyncDownloadOk(g)) /\ UNCHANGED <<dvars, qvars>>
SAddJobSave == AddJobSave /\ UNCHANGED <<dvars, hvars, svars>>
SProcCheckOnline == (\E p \in Procs : ProcCheckOnline(p)) /\ UNCHANGED <<dvars, hvars, svars>>
SProcPop == (\E p \in Procs : ProcPop(p)) /\ UNCHANGED <<dvars, hvars, svars>>
SProcIdleWake == (\E p \in Procs : ProcIdleWake(p)) /\ UNCHANGED <<dvars, hvars, svars>>
SProcSetActive == (\E p \in Procs : ProcSetActive(p)) /\ UNCHANGED <<dvars, hvars, svars>>
SProcStartUpload == (\E p \in Procs : ProcStartUpload(p)) /\ UNCHANGED <<dvars, hvars, svars>>
SProcUploadOk ==
    /\ \E p \in Procs :
          /\ ProcUploadOk(p)
          /\ \E now \in ServerNow(rCatalog) : rCatalog' = NotifyUpload(rCatalog, TheJob(p), now)
    /\ UNCHANGED <<dvars, hvars, sPc, sGames, paused, sFails, evars>>
SProcUploadFail ==
    /\ sFails < MaxFails
    /\ sFails' = sFails + 1
    /\ \E p \in Procs : ProcUploadFail(p)
    /\ UNCHANGED <<dvars, hvars, sPc, sGames, paused, rCatalog, evars>>
SProcPushFront == (\E p \in Procs : ProcPushFront(p)) /\ UNCHANGED <<dvars, hvars, svars>>
SProcBackoffDone == (\E p \in Procs : ProcBackoffDone(p)) /\ UNCHANGED <<dvars, hvars, svars>>
SProcFinalSave == (\E p \in Procs : ProcFinalSave(p)) /\ UNCHANGED <<dvars, hvars, svars>>
SProcClearActive == (\E p \in Procs : ProcClearActive(p)) /\ UNCHANGED <<dvars, hvars, svars>>
SProcEmitStatus == (\E p \in Procs : ProcEmitStatus(p)) /\ UNCHANGED <<dvars, hvars, svars>>

\* the steps of the sync loop task that do not depend on the network
SyncLoopSteps == SLoadFromDisk \/ SSyncTick \/ SAddJobSave

\* one visit of game g in which the network calls succeed
SyncVisitOk(g) ==
    /\ \/ SyncNoAction(g) /\ UNCHANGED <<hvars, qvars>>
       \/ Len(jobs) < MaxSyncJobs /\ SyncUpload(g) /\ UNCHANGED hvars
       \/ SyncDownloadOk(g) /\ UNCHANGED qvars
    /\ UNCHANGED dvars

\* the steps of the queue processor other than the outcome of an upload
SyncProcSteps ==
    \/ SProcCheckOnline
    \/ SProcPop
    \/ SProcIdleWake
    \/ SProcSetActive
    \/ SProcStartUpload
    \/ SProcPushFront
    \/ SProcBackoffDone
    \/ SProcFinalSave
    \/ SProcClearActive
    \/ SProcEmitStatus

SyncNext ==
    \/ SLoadFromDisk
    \/ SSyncTick
    \/ SSyncListError
    \/ SSyncNoAction
    \/ SSyncUpload
    \/ SSyncDownloadFail
    \/ SSyncDownloadOk
    \/ SAddJobSave
    \/ SProcCheckOnline
    \/ SProcPop
    \/ SProcIdleWake
    \/ SProcSetActive
    \/ SProcStartUpload
    \/ SProcUploadOk
    \/ SProcUploadFail
    \/ SProcPushFront
    \/ SProcBackoffDone
    \/ SProcFinalSave
    \/ SProcClearActive
    \/ SProcEmitStatus

\* ------------------------------------------------------------------------
\* Sync engine: start guard, tick gating, trigger, pause/resume, mode switch
\* ------------------------------------------------------------------------
qvarsButMode == <<queue, active, qDisk, qLock, online, notifyPermit, pPc, pJob, aPc, jobs,
                  qCompleted, qRetry, qOwed, qCrashes>>

InPass == sPc = "cycle"

\* Notify::notify_one: one permit is stored, however many calls are made
\* before the waiter consumes it
NotifyOne(permits) == 1

Trigger ==
    /\ sTrigger' = NotifyOne(sTrigger)
    /\ trigSeen' = IF InPass /\ trigSeen < MaxTriggers THEN trigSeen + 1 ELSE trigSeen

\* SyncManager::pause
Pause ==
    /\ paused' = TRUE
    /\ pausedAt' = IF InPass /\ ~paused THEN <<Len(sGames)>> ELSE pausedAt
    /\ UNCHANGED <<sTrigger, trigSeen>>

\* SyncManager::resume: the loop is triggered if the engine was paused
Resume ==
    /\ paused' = FALSE
    /\ pausedAt' = <<>>
    /\ IF paused THEN Trigger ELSE UNCHANGED <<sTrigger, trigSeen>>

\* the sync loop task of a start_background_task call
SpawnLoop(pcs, p) == [pcs EXCEPT ![p] = "spawned"]

\* start_background_task: the queue processor, (the monitor) and the sync
\* loop task are spawned
EngineStartBackgroundTask ==
    /\ \E p \in Procs :
          /\ pPc[p] = "off"
          /\ \A other \in 1..(p - 1) : pPc[other] # "off"
          /\ pPc' = SpawnProcessor(pPc, p)
          /\ lPc' = SpawnLoop(lPc, p)
    /\ UNCHANGED <<queue, active, qDisk, qLock, online, notifyPermit, pJob, aPc, qMode, jobs,
                   qCompleted, qRetry, qOwed, qCrashes>>
    /\ UNCHANGED <<sPc, sGames, paused, rCatalog, sFails>>
    /\ UNCHANGED <<running, sTrigger, backend, mPc, mTarget, trigSeen, pausedAt>>

SwapUnguarded(flag) == FALSE

\* running_flag.swap(true, SeqCst): the previous value
SwapRunning(flag) == flag

\* the first statement of the loop task: it returns if the flag was set
LoopStart(p) ==
    /\ lPc[p] = "spawned"
    /\ lPc' = [lPc EXCEPT ![p] = IF SwapRunning(running) THEN "returned" ELSE "run"]
    /\ running' = TRUE
    /\ UNCHANGED <<sTrigger, backend, mPc, mTarget, trigSeen, pausedAt>>

Runners == {p \in Procs : lPc[p] = "run"}

\* the running loop task calls load_from_disk before its first select
LoopLoadFromDisk == Runners # {} /\ LoadFromDisk

\* the select returns (timer, or a stored permit that is consumed) and the
\* loop reads settings.cloud_mode
LoopTick(byTrigger) ==
    /\ Runners # {}
    /\ sPc = "wait"
    /\ aPc = "idle"
    /\ IF byTrigger
       THEN sTrigger > 0 /\ sTrigger' = sTrigger - 1
       ELSE UNCHANGED sTrigger
    /\ sPc' = IF qMode = "Off" THEN "wait" ELSE "gate_paused"
    /\ UNCHANGED <<sGames, paused, rCatalog, sFails>>
    /\ UNCHANGED <<lPc, running, backend, mPc, mTarget, trigSeen, pausedAt>>

SkipsNever(flag) == FALSE

\* `if paused_flag.load(..) { continue; }`
SkipsWhenPaused(flag) == flag

GatePaused ==
    /\ sPc = "gate_paused"
    /\ sPc' = IF SkipsWhenPaused(paused) THEN "wait" ELSE "gate_online"
    /\ UNCHANGED <<sGames, paused, rCatalog, sFails>>
    /\ UNCHANGED <<lPc, running, sTrigger, backend, mPc, mTarget, trigSeen, pausedAt>>

\* `if !online_status.load(..) { continue; }`, then get_games: the cycle
\* starts with the first game
GateOnline ==
    /\ sPc = "gate_online"
    /\ IF ~online \/ get_games = {}
       THEN sPc' = "wait" /\ UNCHANGED <<sGames, trigSeen>>
       ELSE /\ sGames' \in Orders(get_games)
            /\ sPc' = "cycle"
            /\ trigSeen' = 0
    /\ UNCHANGED <<paused, rCatalog, sFails>>
    /\ UNCHANGED <<lPc, running, sTrigger, backend, mPc, mTarget, pausedAt>>

\* force_sync_now
ForceSyncNow ==
    /\ Trigger
    /\ UNCHANGED <<lPc, running, backend, mPc, mTarget, pausedAt>>

\* one round of the connectivity monitor: the Disabled backend is never
\* connected; on a transition to online the queue is signalled and the sync
\* loop is triggered
MonitorProbe(connected) ==
    /\ connected => backend # "Disabled"
    /\ ProbeConnectivity(connected)
    /\ IF connected /\ ~online THEN Trigger ELSE UNCHANGED <<sTrigger, trigSeen>>
    /\ UNCHANGED <<lPc, running, backend, mPc, mTarget, pausedAt>>

\* update_app_settings: the settings are replaced as a whole, cloud_mode
\* included, and the retention policy is handed to the History store
UpdateAppSettings(mode, retention_limit, auto_delete) ==
    /\ qMode' = mode
    /\ SetPolicy(retention_limit, auto_delete)

\* update_cloud_config: refused in mode Off; the settings are read and written
\* back with the new cloud block, cloud_mode as it was read
UpdateCloudConfig ==
    /\ qMode # "Off"
    /\ qMode' = qMode

\* update_cloud_mode: the new mode is written to the settings
UpdateModePersist(new_mode) ==
    /\ mPc = "idle"
    /\ qMode' = new_mode
    /\ mTarget' = new_mode
    /\ mPc' = "persisted"
    /\ UNCHANGED <<lPc, running, sTrigger, backend, trigSeen, pausedAt>>

\* `if parsed_mode == Official { sync.pause() } else { sync.resume() }`
UpdateModeFlag ==
    /\ mPc = "persisted"
    /\ IF mTarget = "Official" THEN Pause ELSE Resume
    /\ mPc' = "flagged"
    /\ UNCHANGED <<lPc, running, backend, mTarget>>

\* switch_cloud_backend: the variant is built and installed under the lock
UpdateModeSwitch ==
    /\ mPc = "flagged"
    /\ backend' = BackendFor(mTarget)
    /\ mPc' = "switched"
    /\ UNCHANGED <<lPc, running, sTrigger, mTarget, trigSeen, pausedAt>>

\* switch_cloud_backend fails to build the HTTP client: the call returns the
\* error
UpdateModeSwitchErr ==
    /\ mPc = "flagged"
    /\ mTarget # "Off"
    /\ mPc' = "idle"
    /\ mTarget' = NoMode
    /\ UNCHANGED <<lPc, running, sTrigger, backend, trigSeen, pausedAt>>

\* the validation of the settings succeeds: in mode Official the engine is
\* resumed
UpdateModeValid ==
    /\ mPc = "switched"
    /\ IF mTarget = "Official"
       THEN Resume
       ELSE UNCHANGED <<paused, sTrigger, trigSeen, pausedAt>>
    /\ mPc' = "idle"
    /\ mTarget' = NoMode
    /\ UNCHANGED <<lPc, running, backend>>

\* the validation fails: the call returns the error
UpdateModeInvalid ==
    /\ mPc = "switched"
    /\ mTarget # "Off"
    /\ mPc' = "idle"
    /\ mTarget' = NoMode
    /\ UNCHANGED <<lPc, running, sTrigger, backend, trigSeen, pausedAt>>

\* ---- the engine with the commands that act on it -------------------------
\* both games are known locally; mario has a new local version and nothing
\* in the catalog, zelda an old local version and a newer one in the catalog
EngineStore ==
    /\ SyncStore
    /\ DOMAIN hCache = SyncGames
    /\ hCache["mario"][1].ts = NewTs
    /\ hCache["zelda"][1].ts = OldTs
    /\ Len(rCatalog) = 1
    /\ rCatalog[1].game = "zelda"

EngineInit ==
    /\ EngineStore
    /\ sPc = "wait"
    /\ sGames = <<>>
    /\ paused = FALSE
    /\ sFails = 0
    /\ QueueInit
    /\ DecideIdle
    /\ lPc = [p \in Procs |-> IF p <= NumProc THEN "spawned" ELSE "off"]
    /\ running = FALSE
    /\ sTrigger = 0
    /\ backend = BackendFor(qMode)
    /\ mPc = "idle"
    /\ mTarget = NoMode
    /\ trigSeen = 0
    /\ pausedAt = <<>>

EStartBackgroundTask == EngineStartBackgroundTask /\ UNCHANGED <<dvars, hvars>>
ELoopStart ==
    /\ \E p \in Procs : LoopStart(p)
    /\ UNCHANGED <<dvars, hvars, qvars, sPc, sGames, paused, rCatalog, sFails>>
ELoopLoadFromDisk == LoopLoadFromDisk /\ UNCHANGED <<dvars, hvars, svars>>
ELoopTick == (\E t \in BOOLEAN : LoopTick(t)) /\ UNCHANGED <<dvars, hvars, qvars>>
EGatePaused == GatePaused /\ UNCHANGED <<dvars, hvars, qvars>>
EGateOnline == GateOnline /\ UNCHANGED <<dvars, hvars, qvars>>
ENoAction == backend # "Disabled" /\ SSyncNoAction
EUpload == backend # "Disabled" /\ SSyncUpload
EDownloadFail == backend # "Disabled" /\ SSyncDownloadFail
EDownloadOk == backend # "Disabled" /\ SSyncDownloadOk
EForceSyncNow ==
    /\ ForceSyncNow
    /\ UNCHANGED <<dvars, hvars, qvars, sPc, sGames, paused, rCatalog, sFails>>
EMonitorProbe ==
    /\ \E c \in BOOLEAN : MonitorProbe(c)
    /\ UNCHANGED <<dvars, hvars, sPc, sGames, paused, rCatalog, sFails>>
EUpdateAppSettings ==
    /\ \E m \in Modes : UpdateAppSettings(m, DEFAULT_RETENTION, TRUE)
    /\ UNCHANGED <<dvars, qvarsButMode, svars>>
EUpdateCloudConfig == UpdateCloudConfig /\ UNCHANGED <<dvars, hvars, qvarsButMode, svars>>
EUpdateModePersist ==
    /\ \E m \in Modes : UpdateModePersist(m)
    /\ UNCHANGED <<dvars, hvars, qvarsButMode, sPc, sGames, paused, rCatalog, sFails>>
EUpdateModeFlag ==
    /\ UpdateModeFlag
    /\ UNCHANGED <<dvars, hvars, qvars, sPc, sGames, rCatalog, sFails>>
EUpdateModeSwitch ==
    /\ UpdateModeSwitch
    /\ UNCHANGED <<dvars, hvars, qvars, sPc, sGames, paused, rCatalog, sFails>>
EUpdateModeSwitchErr ==
    /\ UpdateModeSwitchErr
    /\ UNCHANGED <<dvars, hvars, qvars, sPc, sGames, paused, rCatalog, sFails>>
EUpdateModeValid ==
    /\ UpdateModeValid
    /\ UNCHANGED <<dvars, hvars, qvars, sPc, sGames, rCatalog, sFails>>
EUpdateModeInvalid ==
    /\ UpdateModeInvalid
    /\ UNCHANGED <<dvars, hvars, qvars, sPc, sGames, paused, rCatalog, sFails>>

EngineNext ==
    \/ EStartBackgroundTask
    \/ ELoopStart
    \/ ELoopLoadFromDisk
    \/ ELoopTick
    \/ EGatePaused
    \/ EGateOnline
    \/ SSyncListError
    \/ ENoAction
    \/ EUpload
    \/ EDownloadFail
    \/ EDownloadOk
    \/ SAddJobSave
    \/ EForceSyncNow
    \/ EMonitorProbe
    \/ EUpdateModePersist
    \/ EUpdateModeFlag
    \/ EUpdateModeSwitch
    \/ EUpdateModeSwitchErr
    \/ EUpdateModeValid
    \/ EUpdateModeInvalid

\* ------------------------------------------------------------------------
\* Specification of the decision procedure over bounded inputs
\* ------------------------------------------------------------------------
DEntries == [vid : DVids, ts : 0..MaxTs, hash : DHashes]
DVersions == [vid : DVids, ts : 0..MaxTs, sha : DHashes]
DLocals == {<<>>} \cup {<<e>> : e \in DEntries}
DRemotes == UNION {[1..n -> DVersions] : n \in 0..MaxRemote}

DInputs ==
    /\ dLocal \in DLocals
    /\ dRemote \in DRemotes
    /\ dDevice \in DDevices

DecideInit == DInputs /\ dResult = <<>> /\ ExtraIdle /\ HistoryIdle /\ QueueIdle /\ SyncIdle

\* the caller applies determine_sync_action to its inputs
Decide ==
    /\ dResult = <<>>
    /\ dResult' = <<determine_sync_action(dLocal, dRemote, dDevice)>>
    /\ UNCHANGED <<dLocal, dRemote, dDevice, xvars, hvars, qvars, svars>>

\* the next call on the same local and remote state, from any device
DecideNext ==
    /\ dResult # <<>>
    /\ dDevice' \in DDevices
    /\ dResult' = <<>>
    /\ UNCHANGED <<dLocal, dRemote, xvars, hvars, qvars, svars>>

\* ------------------------------------------------------------------------
\* Claims about the decision procedure
\* ------------------------------------------------------------------------
Abs(x) == IF x < 0 THEN -x ELSE x

\* the remote versions of maximal timestamp
MaxTsRemotes(remote) ==
    {remote[i] : i \in {k \in 1..Len(remote) : \A j \in 1..Len(remote) : remote[j].ts <= remote[k].ts}}

\* the decision table of the design, for a chosen latest remote version m
TableFor(local, m) ==
    IF m.sha = local.hash THEN Noop
    ELSE IF Abs(m.ts - local.ts) <= 2 THEN Conflict
    ELSE IF m.ts > local.ts THEN Download(m.vid)
    ELSE Upload

\* C2: determine_sync_action returns the value of the decision table for every
\* input (Upload / Download(latest) / Noop / Conflict as local and the
\* max-timestamp remote version dictate) and the value is the same for every
\* current_device.
C2_DecisionTable ==
    dResult # <<>> =>
        LET r == dResult[1] IN
        /\ \A d \in DDevices : determine_sync_action(dLocal, dRemote, d) = r
        /\ (dLocal # <<>> /\ dRemote = <<>>) => r = Upload
        /\ (dLocal = <<>> /\ dRemote = <<>>) => r = Noop
        /\ (dLocal = <<>> /\ dRemote # <<>>) =>
               \E m \in MaxTsRemotes(dRemote) : r = Download(m.vid)
        /\ (dLocal # <<>> /\ dRemote # <<>>) =>
               \E m \in MaxTsRemotes(dRemote) : r = TableFor(dLocal[1], m)

\* a later remote version that is not the first of the list is downloaded
C2_Witness ==
    /\ dResult # <<>>
    /\ dLocal # <<>>
    /\ Len(dRemote) = 2
    /\ dRemote[2].ts > dRemote[1].ts
    /\ dRemote[2].vid # dRemote[1].vid
    /\ dResult[1] = Download(dRemote[2].vid)

\* C3: when the local entry and the latest remote version have different
\* hashes, the decision is Conflict exactly when the absolute difference of
\* their timestamps is at most 2, whichever of the two is the later one.
C3_ConflictWindow ==
    (dResult # <<>> /\ dLocal # <<>> /\ dRemote # <<>>) =>
        \A m \in MaxTsRemotes(dRemote) :
            (\A n \in MaxTsRemotes(dRemote) : n.sha # dLocal[1].hash) =>
                ((dResult[1] = Conflict) <=> (Abs(m.ts - dLocal[1].ts) <= 2))

\* local is the later one by exactly 2 seconds and the decision is Conflict
C3_Witness ==
    /\ dResult # <<>>
    /\ dLocal # <<>>
    /\ Len(dRemote) = 1
    /\ dRemote[1].sha # dLocal[1].hash
    /\ dLocal[1].ts = dRemote[1].ts + 2
    /\ dResult[1] = Conflict

\* a difference of 3 is decided by the later timestamp
C3_WitnessOutside ==
    /\ dResult # <<>>
    /\ dLocal # <<>>
    /\ Len(dRemote) = 1
    /\ dRemote[1].sha # dLocal[1].hash
    /\ dLocal[1].ts = dRemote[1].ts + 3
    /\ dResult[1] = Upload

\* ------------------------------------------------------------------------
\* Claims about the History store
\* ------------------------------------------------------------------------
OnDisk(e) == (\E f \in hArch : FileOf(f) = EntryFile(e)) \/ (\E m \in hMeta : FileOf(m) = EntryFile(e))

\* C4: once every History operation issued has returned, with auto_delete
\* true, no game has more than retention_limit entries in its history and
\* list_history returns at most retention_limit entries.
C4_RetentionBound ==
    (hAuto /\ hSave = <<>>) =>
        /\ \A g \in DOMAIN hCache : Len(hCache[g]) <= hLimit
        /\ hOp.name = "list" => Len(hOp.seen[1]) <= hLimit

\* list_history returns a full history after a save evicted an entry
C4_Witness ==
    /\ hAuto /\ hSave = <<>>
    /\ hOp.name = "list"
    /\ Len(hOp.seen[1]) = hLimit
    /\ hLimit = 2
    /\ hOp.seen[1][1].vid = 3
    /\ \E m \in HMetas : m.game = hOp.seen[1][1].game /\ m \notin Range(hOp.seen[1]) /\ ~OnDisk(m)

\* C5: with auto_delete true no list_history call, at whatever point of a
\* concurrent save_to_history it runs, returns more than retention_limit
\* entries.
C5_ReaderWithinLimit ==
    (hOp.name = "list" /\ hAuto) => Len(hOp.seen[1]) <= hLimit

Terminal(i) == jobs[i].term # "none"

\* every UploadJob value held anywhere: FIFO, active slot, processors, disk
AllJobRecords ==
    Range(queue) \cup Range(qDisk) \cup Range(active) \cup UNION {Range(pJob[p]) : p \in Procs}

\* C7: jobs are numbered in the order add_job accepted them.  The
\* upload-complete events are emitted in that order, and of two jobs that have
\* both completed the later one did not start its first attempt while the
\* earlier one was still short of its terminal state.
C7_QueueFifo ==
    /\ \A a, b \in 1..Len(qCompleted) : a < b => qCompleted[a] < qCompleted[b]
    /\ \A j1, j2 \in 1..Len(jobs) :
          (j1 < j2 /\ jobs[j1].term = "completed" /\ jobs[j2].term = "completed")
              => j1 \notin jobs[j2].ahead

\* two jobs completed, the first one after at least one failed attempt that
\* put it back while the second was already accepted
C7_Witness ==
    /\ Len(jobs) = 2
    /\ jobs[1].term = "completed" /\ jobs[2].term = "completed"
    /\ jobs[1].attempts >= 2
    /\ qCompleted = <<1, 2>>

\* C8: in one run of the process, a failed attempt of job j with retries < 3
\* puts j at the front of the FIFO with retries one higher, and the next
\* attempt the processor starts is an attempt of j with that retries value.
C8_HeadOfLine ==
    [][\A p \in Procs :
          /\ (pPc[p] = "push_front" /\ pPc'[p] = "backoff")
                => /\ qRetry # <<>>
                   /\ Head(queue').id = qRetry[1].id
                   /\ Head(queue').retries = qRetry[1].retries + 1
          /\ (pPc[p] = "mark" /\ pPc'[p] = "upload" /\ qRetry # <<>>)
                => /\ pJob'[p][1].id = qRetry[1].id
                   /\ pJob'[p][1].retries = qRetry[1].retries + 1]_vars

\* the second attempt of a job is in flight while a job accepted later waits
\* in the FIFO behind it
C8_Witness ==
    \E p \in Procs :
        /\ pPc[p] = "upload"
        /\ jobs[TheJob(p).id].attempts = 2
        /\ TheJob(p).retries = 1
        /\ queue # <<>>
        /\ Head(queue).id > TheJob(p).id

PendingOf(q, v) == {i \in 1..Len(q) : q[i].vid = v /\ q[i].status = "Pending"}
JobsOf(q, v) == {i \in 1..Len(q) : q[i].vid = v}

\* C10: after a crash, the load_from_disk of the restarted process leaves in
\* the FIFO exactly one job, Pending, for every version whose add_job had
\* returned and whose job was not terminal when the process stopped.
C10_CrashDurability ==
    [][(aPc = "load" /\ aPc' = "idle")
          => \A v \in qOwed' : Cardinality(JobsOf(queue', v)) = 1
                               /\ Cardinality(PendingOf(queue', v)) = 1]_vars

\* C11: an add_job call changes the FIFO only by appending a job whose
\* version_id no queued job has, and the FIFO never holds two jobs with the
\* same version_id.
C11_Dedup ==
    /\ [][(aPc = "idle" /\ aPc' = "added")
             => /\ ~HasVersion(queue, queue'[Len(queue')].vid)
                /\ queue' = Append(queue, queue'[Len(queue')])]_vars
    /\ [](\A i, j \in 1..Len(queue) : i # j => queue[i].vid # queue[j].vid)

\* C12: in every reachable state the version_id held in the active-job slot
\* is not the version_id of a job in the FIFO.
C12_OnePlace == active = <<>> \/ ~HasVersion(queue, active[1].vid)

Consumers == {p \in Procs : pPc[p] # "off"}
Attempting == {p \in Procs : pPc[p] = "upload"}

\* C13: however often start_background_task is called, the FIFO has one
\* consuming task and at most one upload attempt is in progress.
C13_SingleConsumer == Cardinality(Consumers) = 1 /\ Cardinality(Attempting) <= 1

\* no task is between a change it made to the FIFO and the save_to_disk call
\* that follows the change in its code
NoSavePending ==
    /\ aPc = "idle"
    /\ \A p \in Procs : pPc[p] \notin {"set_active", "mark", "push_front", "backoff", "final_save"}

\* C14: whenever every operation that changed the FIFO is past its
\* save_to_disk, the snapshot file lists exactly the Pending and Uploading jobs
\* of the FIFO, in FIFO order (a job's status apart, which load_from_disk
\* rewrites); a clear is such an operation.
C14_SnapshotFollows == NoSavePending => Reloaded(qDisk) = Reloaded(Snapshot(queue))

\* C15: a clear call returns: the queue mutex it took does not stay held.
C15_ClearCompletes == [](qLock = "clear" => <>(qLock # "clear"))

InWaitForOnline(p) == pPc[p] \in {"wo_check", "wo_register", "wait_online"}

\* C16: a processor that is inside wait_for_online while the FIFO is not
\* empty and the flag is online and stays online (the monitor has seen the
\* transition and sees no further loss) eventually pops a job.
C16_NoLostWakeup ==
    \A p \in Procs :
        []((InWaitForOnline(p) /\ queue # <<>> /\ []online) => <>(pPc[p] = "set_active"))

\* ------------------------------------------------------------------------
\* Claims about the engine's gating, start guard and mode switch
\* ------------------------------------------------------------------------
PassStarts == sPc # "cycle" /\ sPc' = "cycle"

\* C17: a pass starts only out of the online check with the flag online; that
\* check is reached only out of the pause check with paused false, and the
\* pause check only out of the mode read with a mode other than Off.  A pause
\* set during a pass leaves the pass where it is, and no pass starts as long
\* as that pause is in force.
C17_TickGating ==
    /\ [][PassStarts => (sPc = "gate_online" /\ online /\ pausedAt = <<>>)]_vars
    /\ [][(sPc # "gate_online" /\ sPc' = "gate_online")
             => (sPc = "gate_paused" /\ ~paused)]_vars
    /\ [][(sPc # "gate_paused" /\ sPc' = "gate_paused")
             => (sPc = "wait" /\ qMode # "Off")]_vars
    /\ [][(~paused /\ paused' /\ InPass) => (sPc' = sPc /\ sGames' = sGames)]_vars

\* a pause was set when the pass had both games still to visit; the pass has
\* visited them and the loop is back at its select, still paused
C17_Witness ==
    /\ paused
    /\ pausedAt = <<2>>
    /\ sPc = "wait"
    /\ sGames = <<>>

\* C18: however many start_background_task calls are made, at most one sync
\* loop task is past the start guard, so at most one pass is in progress; and
\* however many triggers arrive during a pass, at most one wake-up is stored
\* for the time after it.
C18_OneEngine ==
    /\ Cardinality(Runners) <= 1
    /\ Cardinality({p \in Runners : InPass}) <= 1
    /\ sTrigger <= 1

\* the loop task of a second start_background_task call has returned, and two
\* triggers have arrived during the pass in progress
C18_Witness ==
    /\ \E p \in Procs : lPc[p] = "returned"
    /\ InPass
    /\ trigSeen = 2
    /\ sTrigger = 1

\* C19: an update_cloud_mode call replaces the backend only while the engine
\* is paused, no pass starts between the replacement and the end of the
\* validation, and the call resumes the engine only at the successful end of
\* the validation.
C19_PauseAroundSwitch ==
    /\ [][(mPc = "flagged" /\ mPc' = "switched") => paused]_vars
    /\ [][PassStarts => mPc # "switched"]_vars
    /\ [][(paused /\ ~paused' /\ mPc # "idle") => (mPc = "switched" /\ mPc' = "idle")]_vars

\* C20: whenever no update_cloud_mode call is in progress, the installed
\* backend is the variant of settings.cloud_mode.
C20_BackendMatchesMode == mPc = "idle" => backend = BackendFor(qMode)

\* ------------------------------------------------------------------------
\* Claim about the sync engine
\* ------------------------------------------------------------------------
HasRemote(g) == \E i \in 1..Len(rCatalog) : rCatalog[i].game = g

\* the newest local entry of g carries the hash of the newest remote version
\* of g, and the decision for g is Noop
Synced(g) ==
    LET local == get_latest_version(g)
        remote == LatestCloud(list_versions(rCatalog, g, 1))
    IN  /\ local # <<>>
        /\ remote # <<>>
        /\ local[1].hash = remote[1].sha
        /\ DecisionFor(g) = Noop

\* C1: with the engine online, unpaused, in a cloud mode other than Off, no
\* new local snapshots and network calls that eventually succeed: for every
\* game for which no Conflict is ever decided, once the catalog holds a
\* version of the game the device eventually, and from then on for ever, has
\* as its newest local entry one with the hash of the newest remote version
\* and decides Noop.  Games the device has no History entry for are included.
C1_Convergence ==
    \A g \in SyncGames :
        ([](DecisionFor(g) # Conflict)) => [](HasRemote(g) => <>[]Synced(g))

\* convergence restricted to the games the History store knows at every moment
KnownGamesConverge ==
    \A g \in SyncGames :
        ([](DecisionFor(g) # Conflict /\ g \in get_games))
            => [](HasRemote(g) => <>[]Synced(g))

DecideSpecNext == Decide \/ DecideNext

SpecDecide == DecideInit /\ [][DecideSpecNext]_vars

HistorySpecInit == HistoryInit /\ DecideIdle /\ QueueIdle /\ SyncIdle

SpecHistory == HistorySpecInit /\ [][HistoryNext]_vars

QueueSpecInit == QueueInit /\ DecideIdle /\ HistoryIdle /\ SyncIdle

SpecQueue == QueueSpecInit /\ [][QueueNext]_vars

\* the steps of the tasks of the queue that the runtime schedules: the sync
\* loop's calls in progress and the queue processors; an upload attempt ends
QueueTaskSteps ==
    \/ QLoadFromDisk
    \/ QAddJobSave
    \/ QProcCheckOnline
    \/ QProcWaitForOnline
    \/ QProcAwaitOnline
    \/ QProcPop
    \/ QProcIdleWake
    \/ QProcSetActive
    \/ QProcStartUpload
    \/ QProcUploadOk
    \/ QProcUploadFail
    \/ QProcPushFront
    \/ QProcBackoffDone
    \/ QProcFinalSave
    \/ QProcClearActive
    \/ QProcEmitStatus

FairSpecQueue == QueueSpecInit /\ [][QueueNext]_vars /\ WF_vars(QueueTaskSteps)

\* the queue, its processor and the connectivity monitor, without clear calls
\* and crashes
OnlineNext ==
    \/ QLoadFromDisk
    \/ QAddJobPush
    \/ QAddJobSave
    \/ QProcCheckOnline
    \/ QProcWaitForOnline
    \/ QProcAwaitOnline
    \/ QProcPop
    \/ QProcIdleWake
    \/ QProcSetActive
    \/ QProcStartUpload
    \/ QProcUploadOk
    \/ QProcUploadFail
    \/ QProcPushFront
    \/ QProcBackoffDone
    \/ QProcFinalSave
    \/ QProcClearActive
    \/ QProcEmitStatus
    \/ QProbeConnectivity

FairSpecOnline == QueueSpecInit /\ [][OnlineNext]_vars /\ WF_vars(QueueTaskSteps)

SpecStart == QueueSpecInit /\ [][StartNext]_vars

\* every task that can run does run; a network call that is retried for ever
\* succeeds at some point
SyncFairness ==
    /\ WF_vars(SyncLoopSteps)
    /\ WF_vars(SyncProcSteps)
    /\ SF_vars(SProcUploadOk)
    /\ \A g \in SyncGames : SF_vars(SyncVisitOk(g))

SpecEngine == EngineInit /\ [][EngineNext]_vars

\* the commands that change the cloud mode or the settings, with the running
\* engine
SwitchNext ==
    \/ ELoopStart
    \/ ELoopLoadFromDisk
    \/ ELoopTick
    \/ EGatePaused
    \/ EGateOnline
    \/ SSyncListError
    \/ ENoAction
    \/ EUpload
    \/ EDownloadFail
    \/ EDownloadOk
    \/ SAddJobSave
    \/ EMonitorProbe
    \/ EUpdateAppSettings
    \/ EUpdateCloudConfig
    \/ EUpdateModePersist
    \/ EUpdateModeFlag
    \/ EUpdateModeSwitch
    \/ EUpdateModeSwitchErr
    \/ EUpdateModeValid
    \/ EUpdateModeInvalid

SpecSwitch == EngineInit /\ [][SwitchNext]_vars

FairSpecSync == SyncInit /\ [][SyncNext]_vars /\ SyncFairness

\* ------------------------------------------------------------------------
\* One save version from the packager of one device to the History store of
\* another: perform_upload, the server's handle_notify_upload and
\* handle_download_url, perform_download
\* ------------------------------------------------------------------------
dcore == <<dLocal, dRemote, dDevice, dResult>>

\* everything but the state of the round trip
notRoundTrip == <<dcore, zip, wvars, sLog, cvars, hvars, qvars, svars, yvars>>

RtGames == {"zelda"}
RtEmulators == {"dolphin", "retroarch"}
RtFileLists == {<<"slot0.sav">>, <<"slot0.sav", "slot1.sav">>}
Archives == 1..2

\* SHA-256 of the bytes of an archive, and their length
calculate_sha256(a) == 100 + a
ArchiveLen(a) == 10 * a

\* the version id is a hash of the timestamp and of the file list
generate_version_id(timestamp, file_list) == <<timestamp, Len(file_list)>>

\* the SaveMetadata that the packager writes for archive a
generate_metadata(g, e, ts, fl, a) ==
    [game_id |-> g, emulator_id |-> e, timestamp |-> ts,
     version_id |-> generate_version_id(ts, fl), file_list |-> fl,
     hash |-> calculate_sha256(a), size_bytes |-> <<ArchiveLen(a)>>,
     sha256 |-> <<calculate_sha256(a)>>, source |-> <<"local">>]

PackagedSaves ==
    {[m |-> generate_metadata(g, e, ts, fl, a), a |-> a] :
        g \in RtGames, e \in RtEmulators, ts \in 0..MaxTs, fl \in RtFileLists,
        a \in Archives}

\* the body of the notify-upload call for job (m, a)
UploadRequest(m, a) ==
    [game_id |-> m.game_id, version_id |-> m.version_id,
     size_bytes |-> ArchiveLen(a), sha256 |-> calculate_sha256(a),
     file_list |-> m.file_list, emulator_id |-> <<m.emulator_id>>]

\* the catalog entry that the server makes of a request at its time now
SaveVersion(req, now) ==
    [version_id |-> req.version_id, game_id |-> req.game_id,
     size_bytes |-> req.size_bytes, sha256 |-> req.sha256,
     file_list |-> req.file_list, emulator_id |-> req.emulator_id,
     timestamp |-> now]

\* what the server answers to a download request for a catalog entry
DownloadUrlResponse(version) ==
    [version_id |-> version.version_id, game_id |-> version.game_id,
     size_bytes |-> version.size_bytes, sha256 |-> version.sha256,
     file_list |-> version.file_list, emulator_id |-> version.emulator_id,
     timestamp |-> <<version.timestamp>>]

UnwrapOr(opt, default) == IF opt = <<>> THEN default ELSE opt[1]

\* the SaveMetadata that perform_download hands to add_version_from_cloud;
\* clock is the time of the downloading device
DownloadedMetadata(download_info, clock) ==
    [game_id |-> download_info.game_id,
     emulator_id |-> UnwrapOr(download_info.emulator_id, ""),
     timestamp |-> UnwrapOr(download_info.timestamp, clock),
     version_id |-> download_info.version_id,
     file_list |-> download_info.file_list,
     hash |-> download_info.sha256,
     size_bytes |-> <<download_info.size_bytes>>,
     sha256 |-> <<download_info.sha256>>,
     source |-> <<"cloud">>]

RoundTripInit ==
    /\ \E s \in PackagedSaves : rt = [stage |-> "packaged", m |-> s.m, a |-> s.a]
    /\ UnzipIdle /\ WatcherIdle /\ EventsIdle /\ SettingsIdle /\ LaterIdle
    /\ DecisionIdle /\ HistoryIdle /\ QueueIdle /\ SyncIdle

\* perform_upload of the job and handle_notify_upload on the server, whose
\* clock is not behind the time at which the save was packaged
RtUpload ==
    /\ rt.stage = "packaged"
    /\ \E now \in rt.m.timestamp..MaxTs :
        rt' = [stage |-> "uploaded", m |-> rt.m, a |-> rt.a,
               version |-> SaveVersion(UploadRequest(rt.m, rt.a), now)]
    /\ UNCHANGED notRoundTrip

\* perform_download on the other device, up to add_version_from_cloud
RtDownloadOk ==
    /\ rt.stage = "uploaded"
    /\ \E clock \in 0..MaxTs :
        rt' = [stage |-> "ingested", m |-> rt.m, a |-> rt.a, version |-> rt.version,
               entry |-> DownloadedMetadata(DownloadUrlResponse(rt.version), clock)]
    /\ UNCHANGED notRoundTrip

\* perform_download returns an error before it reaches the History store
RtDownloadErr ==
    /\ rt.stage = "uploaded"
    /\ rt' = [stage |-> "failed", m |-> rt.m, a |-> rt.a, version |-> rt.version]
    /\ UNCHANGED notRoundTrip

RoundTripNext ==
    \/ RtUpload
    \/ RtDownloadOk
    \/ RtDownloadErr

SpecRoundTrip == RoundTripInit /\ [][RoundTripNext]_vars

RoundTripFields ==
    {"game_id", "emulator_id", "version_id", "timestamp", "file_list", "hash",
     "size_bytes"}

\* C21: when a device uploads (m, a) and another device downloads that
\* version, the metadata of the ingested History entry equals m in game_id,
\* emulator_id, version_id, timestamp, file_list, hash and size_bytes, and
\* its source is cloud
C21_RoundTrip ==
    rt.stage = "ingested" =>
        /\ \A f \in RoundTripFields : rt.entry[f] = rt.m[f]
        /\ rt.entry.source = <<"cloud">>

\* the fields of the claim other than the timestamp do survive the round trip
C21_OtherFields ==
    rt.stage = "ingested" =>
        /\ \A f \in RoundTripFields \ {"timestamp"} : rt.entry[f] = rt.m[f]
        /\ rt.entry.source = <<"cloud">>

\* a version was ingested that the server had stamped later than its packager
C21_Stamped ==
    /\ rt.stage = "ingested"
    /\ rt.version.timestamp > rt.m.timestamp

\* ------------------------------------------------------------------------
\* Ingestion into the History store of an archive with any content
\* ------------------------------------------------------------------------
\* SHA-256 of an archive whose bytes are not those the metadata was made for
DamagedSha == MaxVids + 1

\* save_to_history(metadata, archive_path), for an archive file that hashes
\* to metadata.hash and for one that does not, up to the end of insert_entry
HIngest ==
    /\ \E meta \in HMetas : \E sha \in {meta.hash, DamagedSha} : SaveInsert(meta, sha)
    /\ UNCHANGED <<dvars, qvars, svars>>

IngestNext ==
    \/ HIngest
    \/ HSaveTrim
    \/ HDeleteHistoryItem
    \/ HListHistory

SpecIngest == HistorySpecInit /\ [][IngestNext]_vars

\* the archive files of a History entry
ArchivesOf(entry) == {f \in hArch : FileOf(f) = FileOf(entry)}

\* C22: every History entry has metadata.hash equal to the SHA-256 of the
\* bytes of its archive: an ingest whose archive does not hash to
\* metadata.hash produces no History entry
C22_ContentHash ==
    \A g \in DOMAIN hCache : \A entry \in Range(hCache[g]) :
        \A f \in ArchivesOf(entry) : f.sha = entry.hash

\* an entry is in the History store with an archive of another content
C22_Damaged ==
    \E g \in DOMAIN hCache : \E entry \in Range(hCache[g]) :
        \E f \in ArchivesOf(entry) : f.sha = DamagedSha

\* ------------------------------------------------------------------------
\* Extraction of a downloaded archive (core/sync.rs, perform_download)
\* ------------------------------------------------------------------------
\* a path is the sequence of its components; an absolute path starts at the
\* root directory, and a resolved path has no ".." or "." component
PathParts == {"..", ".", "a", "b"}
NameParts == UNION {[1..n -> PathParts] : n \in 1..MaxNameLen}

\* the entries an archive can hold: name and directory flag
ZipEntries == [root : BOOLEAN, parts : NameParts, dir : BOOLEAN]

\* the directory of the emulator's saves: it exists, with its ancestors
TargetDir == <<"home", "saves">>

\* the walk of enclosed_name over the components of a relative name: the
\* depth reached, or -1 when a ".." would leave the starting directory
RECURSIVE DepthOf(_, _)
DepthOf(parts, depth) ==
    IF parts = <<>> THEN depth
    ELSE IF Head(parts) = ".."
         THEN (IF depth = 0 THEN -1 ELSE DepthOf(Tail(parts), depth - 1))
    ELSE IF Head(parts) = "." THEN DepthOf(Tail(parts), depth)
    ELSE DepthOf(Tail(parts), depth + 1)

\* ZipFile::enclosed_name: None for an absolute name and for a name that
\* leaves its starting directory
enclosed_name(entry) ==
    IF entry.root \/ DepthOf(entry.parts, 0) < 0 THEN <<>> ELSE <<entry>>

\* a name taken as it is written in the archive
raw_name(entry) == <<entry>>

\* the name perform_download extracts an entry under, if any
ExtractedName(entry) == enclosed_name(entry)

\* PathBuf::join: an absolute argument replaces the base
Join(base, entry) == IF entry.root THEN entry.parts ELSE base \o entry.parts

\* the place in the file system that a path names
RECURSIVE Resolve(_)
Resolve(path) ==
    IF path = <<>> THEN <<>>
    ELSE LET parent == Resolve(SubSeq(path, 1, Len(path) - 1))
             last == path[Len(path)]
         IN  IF last = "." THEN parent
             ELSE IF last = ".."
                  THEN (IF parent = <<>> THEN <<>> ELSE SubSeq(parent, 1, Len(parent) - 1))
             ELSE Append(parent, last)

IsPrefix(p, q) == Len(p) <= Len(q) /\ SubSeq(q, 1, Len(p)) = p

\* the directories that exist before the extraction
ExistingDirs == {SubSeq(TargetDir, 1, k) : k \in 0..Len(TargetDir)}

\* create_dir_all(path): the directories it makes
CreateDirAll(path) == {Resolve(SubSeq(path, 1, k)) : k \in 0..Len(path)} \ ExistingDirs

\* one iteration of the loop on an entry: the paths it creates and whether
\* it goes on (a file cannot be created at the place of a directory)
ExtractEntry(entry) ==
    IF ExtractedName(entry) = <<>> THEN [created |-> {}, result |-> "skipped"]
    ELSE LET out_path == Join(TargetDir, ExtractedName(entry)[1])
             parent == SubSeq(out_path, 1, Len(out_path) - 1)
             place == Resolve(out_path)
         IN  IF entry.dir THEN [created |-> CreateDirAll(out_path), result |-> "dir"]
             ELSE IF place \in ExistingDirs \cup CreateDirAll(parent)
                  THEN [created |-> CreateDirAll(parent), result |-> "error"]
             ELSE [created |-> CreateDirAll(parent) \cup {place}, result |-> "file"]

notUnzip == <<dcore, rt, wvars, sLog, cvars, hvars, qvars, svars, yvars>>

UnzipInit ==
    /\ UnzipIdle
    /\ RoundTripIdle /\ WatcherIdle /\ EventsIdle /\ SettingsIdle /\ LaterIdle
    /\ DecisionIdle /\ HistoryIdle /\ QueueIdle /\ SyncIdle

\* the loop takes the next entry of the archive
UnzipEntry ==
    /\ zip.n < MaxEntries
    /\ zip.result # "error"
    /\ \E entry \in ZipEntries :
        LET done == ExtractEntry(entry)
        IN  zip' = [n |-> zip.n + 1, entry |-> <<entry>>, created |-> done.created,
                    result |-> done.result]
    /\ UNCHANGED notUnzip

UnzipNext == UnzipEntry

SpecUnzip == UnzipInit /\ [][UnzipNext]_vars

Inside(place) == IsPrefix(TargetDir, place)

\* the name of the entry, joined to the target directory, is a place
\* outside the target directory
Escapes(entry) == ~Inside(Resolve(Join(TargetDir, entry)))

\* C23: whatever the name of an archive entry, every file and directory the
\* extraction creates lies inside the target save directory, and an entry
\* whose name would escape it is skipped and writes nothing
C23_ZipSlip ==
    /\ \A place \in zip.created : Inside(place)
    /\ \A i \in 1..Len(zip.entry) :
        Escapes(zip.entry[i]) => (zip.result = "skipped" /\ zip.created = {})

\* the second entry of an archive had a name that escapes the target
\* directory, and was skipped
C23_Witness ==
    /\ zip.n = 2
    /\ zip.result = "skipped"
    /\ Escapes(zip.entry[1])

\* ------------------------------------------------------------------------
\* Filesystem watcher (core/watcher.rs, api/watcher_api.rs), for one
\* watched path
\* ------------------------------------------------------------------------
notWatcher == <<dcore, rt, zip, sLog, cvars, hvars, qvars, svars, yvars>>

\* kinds of the raw events of the observer
RawKinds == {"Create", "Modify", "Remove", "Access"}

\* map_event_kind: Option<WatchEventType>
map_event_kind(kind) ==
    IF kind = "Create" THEN <<"Add">>
    ELSE IF kind = "Modify" THEN <<"Modify">>
    ELSE IF kind = "Remove" THEN <<"Delete">>
    ELSE <<>>

\* the path lists a start call can be given, and what the observer does
StartPaths == {"empty", "missing", "valid"}
Observers == {"ok", "create_err", "watch_err"}

\* the start guard
NeverRunning(inner) == FALSE
IsRunning(inner) == inner # <<>>

AlreadyRunning(inner) == IsRunning(inner)

\* the value WatcherManager::start returns
StartResult(paths, observer, inner) ==
    IF paths = "empty" THEN "WatchPath"
    ELSE IF AlreadyRunning(inner) THEN "AlreadyRunning"
    ELSE IF paths = "missing" THEN "WatchPath"
    ELSE IF observer = "create_err" THEN "Create"
    ELSE IF observer = "watch_err" THEN "WatchPath"
    ELSE "Ok"

\* WatcherManager::start; a start that goes past the empty check takes the
\* lock, which a stop call holds until it returns
StartWith(paths, observer) ==
        LET ret == StartResult(paths, observer, wInst)
        IN  /\ paths = "empty" \/ wPc = "none"
            /\ wCall' = [op |-> "start", paths |-> paths, observer |-> observer,
                         before |-> wInst, ret |-> ret]
            /\ IF ret = "Ok"
               THEN /\ wStarts < MaxWatchStarts
                    /\ wStarts' = wStarts + 1
                    /\ wInst' = <<wStarts + 1>>
                    /\ wTask' = "select"
                    /\ wChan' = <<>>
                    /\ wStop' = FALSE
                    /\ wPending' = <<>>
                    /\ wTimer' = Debounce
                    /\ wEmitted' = <<>>
                    /\ wRaw' = <<>>
                    /\ wSpan' = 0
                    /\ wWithin' = TRUE
                    /\ wOwed' = <<>>
                    /\ UNCHANGED wPc
               ELSE UNCHANGED <<wInst, wStarts, wPc, wTask, wChan, wStop, wPending, wTimer,
                                wEmitted, wRaw, wSpan, wWithin, wOwed>>
            /\ UNCHANGED notWatcher

\* start_watcher with any path list, whatever the observer does
WStart == \E paths \in StartPaths, observer \in Observers : StartWith(paths, observer)

\* start_watcher with a path that exists and an observer that works
WStartValid == StartWith("valid", "ok")

\* stop_watcher with no instance: stop returns NotRunning, the command Ok
WStopNotRunning ==
    /\ wPc = "none"
    /\ wInst = <<>>
    /\ wCall' = [op |-> "stop", paths |-> "none", observer |-> "none",
                 before |-> <<>>, ret |-> "Ok"]
    /\ UNCHANGED <<wInst, wStarts, wPc, wTask, wChan, wStop, wPending, wTimer, wEmitted,
                   wRaw, wSpan, wWithin, wOwed>>
    /\ UNCHANGED notWatcher

\* stop: the instance is taken and the stop signal sent
WStopSignal ==
    /\ wPc = "none"
    /\ wInst # <<>>
    /\ wInst' = <<>>
    /\ wStop' = TRUE
    /\ wPc' = "abort"
    /\ wOwed' = wPending
    /\ wCall' = [op |-> "stop", paths |-> "none", observer |-> "none",
                 before |-> wInst, ret |-> "none"]
    /\ UNCHANGED <<wStarts, wTask, wChan, wPending, wTimer, wEmitted, wRaw, wSpan, wWithin>>
    /\ UNCHANGED notWatcher

\* stop: task_handle.abort(), then the instance is dropped with its observer
\* and stop returns; a processor suspended in its select never runs again
WStopAbort ==
    /\ wPc = "abort"
    /\ wTask' = IF wTask = "select" THEN "aborted" ELSE wTask
    /\ wPc' = "none"
    /\ wCall' = [wCall EXCEPT !.ret = "Ok"]
    /\ UNCHANGED <<wInst, wStarts, wChan, wStop, wPending, wTimer, wEmitted, wRaw, wSpan,
                   wWithin, wOwed>>
    /\ UNCHANGED notWatcher

\* the observer sends a raw event for the path
WRawEvent ==
    /\ wInst # <<>> \/ wPc = "abort"
    /\ Len(wRaw) < MaxRaw
    /\ \E kind \in RawKinds :
        /\ wChan' = Append(wChan, kind)
        /\ wRaw' = Append(wRaw, kind)
    /\ wSpan' = IF wRaw = <<>> THEN 0 ELSE wSpan
    /\ wWithin' = (wWithin /\ (wRaw = <<>> \/ wSpan < Debounce))
    /\ UNCHANGED <<wInst, wStarts, wPc, wTask, wStop, wPending, wTimer, wEmitted, wOwed, wCall>>
    /\ UNCHANGED notWatcher

\* time passes
WTick ==
    /\ wTask = "select"
    /\ wTimer > 0 \/ (wRaw # <<>> /\ wSpan < Debounce)
    /\ wTimer' = IF wTimer > 0 THEN wTimer - 1 ELSE 0
    /\ wSpan' = IF wRaw # <<>> /\ wSpan < Debounce THEN wSpan + 1 ELSE wSpan
    /\ UNCHANGED <<wInst, wStarts, wPc, wTask, wChan, wStop, wPending, wEmitted, wRaw,
                   wWithin, wOwed, wCall>>
    /\ UNCHANGED notWatcher

\* register_event for the path: the new map, and whether it was changed
register_event(pending, kind) ==
    IF map_event_kind(kind) = <<>> THEN [pending |-> pending, registered |-> FALSE]
    ELSE [pending |-> map_event_kind(kind), registered |-> TRUE]

\* flush_events: the events emitted so far, after the pending map was drained
flush_events(emitted, pending) ==
    IF pending = <<>> THEN emitted ELSE Append(emitted, pending[1])

\* select serves the event channel
WProcEvent ==
    /\ wTask = "select"
    /\ wChan # <<>>
    /\ LET reg == register_event(wPending, Head(wChan))
       IN  /\ wPending' = reg.pending
           /\ wTimer' = IF reg.registered THEN Debounce ELSE wTimer
    /\ wChan' = Tail(wChan)
    /\ UNCHANGED <<wInst, wStarts, wPc, wTask, wStop, wEmitted, wRaw, wSpan, wWithin,
                   wOwed, wCall>>
    /\ UNCHANGED notWatcher

\* select serves the debounce timer, which has fired
WProcTimer ==
    /\ wTask = "select"
    /\ wTimer = 0
    /\ wEmitted' = flush_events(wEmitted, wPending)
    /\ wPending' = <<>>
    /\ wTimer' = Debounce
    /\ wOwed' = IF wPending # <<>> THEN <<>> ELSE wOwed
    /\ UNCHANGED <<wInst, wStarts, wPc, wTask, wChan, wStop, wRaw, wSpan, wWithin, wCall>>
    /\ UNCHANGED notWatcher

\* select serves the stop channel: break, final flush, end of the task
WProcStop ==
    /\ wTask = "select"
    /\ wStop
    /\ wStop' = FALSE
    /\ wEmitted' = flush_events(wEmitted, wPending)
    /\ wPending' = <<>>
    /\ wOwed' = IF wPending # <<>> THEN <<>> ELSE wOwed
    /\ wTask' = "ended"
    /\ UNCHANGED <<wInst, wStarts, wPc, wChan, wTimer, wRaw, wSpan, wWithin, wCall>>
    /\ UNCHANGED notWatcher

WatcherInit ==
    /\ WatcherIdle
    /\ RoundTripIdle /\ UnzipIdle /\ EventsIdle /\ SettingsIdle /\ LaterIdle
    /\ DecisionIdle /\ HistoryIdle /\ QueueIdle /\ SyncIdle

\* the processor between a start and a stop
WatcherNext ==
    \/ WStartValid
    \/ WStopSignal
    \/ WStopAbort
    \/ WRawEvent
    \/ WTick
    \/ WProcEvent
    \/ WProcTimer
    \/ WProcStop

SpecWatcher == WatcherInit /\ [][WatcherNext]_vars

\* the start and stop commands, whatever their inputs
WatcherCallsNext ==
    \/ WStart
    \/ WStopNotRunning
    \/ WStopSignal
    \/ WStopAbort
    \/ WTick
    \/ WProcTimer
    \/ WProcStop

SpecWatcherCalls == WatcherInit /\ [][WatcherCallsNext]_vars

\* the mappable raw events, as event types
Mapped(raw) ==
    LET mappable == SelectSeq(raw, LAMBDA kind : map_event_kind(kind) # <<>>)
    IN  [i \in 1..Len(mappable) |-> map_event_kind(mappable[i])[1]]

\* the processor has received every raw event sent and has nothing pending
WatcherQuiet ==
    /\ wTask = "select"
    /\ wInst # <<>>
    /\ wChan = <<>>
    /\ wPending = <<>>

\* C24: when the raw events on the path all arrive within one debounce
\* interval, exactly one fs-event is emitted for the path, with the type
\* mapped from the last mappable raw event, in whatever order the select of
\* the processor serves the event channel and the debounce timer
C24_Coalescing ==
    (wInst # <<>> /\ wWithin /\ Mapped(wRaw) # <<>>) =>
        /\ Len(wEmitted) <= 1
        /\ WatcherQuiet => wEmitted = <<Mapped(wRaw)[Len(Mapped(wRaw))]>>

\* two fs-events were emitted for raw events that came within one interval
C24_Twice ==
    /\ wInst # <<>>
    /\ wWithin
    /\ Len(wEmitted) = 2

\* C25: every event that is pending when stop is called has been emitted
\* when the processor task is over; the abort that follows the stop signal
\* loses none
C25_FinalFlush ==
    (wTask \in {"ended", "aborted"}) => wOwed = <<>>

\* the final flush did emit the event pending at the stop call
C25_Flushed ==
    /\ wTask = "ended"
    /\ wCall.op = "stop"
    /\ wEmitted # <<>>
    /\ wOwed = <<>>

\* the parts of the watcher state machine that do not depend on the path list
\* of a start while running
WatcherCallRules ==
    \* one instance at most, and a processor waiting in its select is the
    \* processor of that instance or of the instance that stop is ending
    /\ Len(wInst) <= 1
    /\ wTask = "select" => (wInst # <<>> \/ wPc = "abort")
    \* a start that fails leaves the watcher stopped
    /\ (wCall.op = "start" /\ wCall.before = <<>> /\ wCall.ret # "Ok") => wInst = <<>>
    \* stop while stopped is not an error of the command
    /\ (wCall.op = "stop" /\ wCall.before = <<>>) => wCall.ret = "Ok"
    \* a start while stopped, after a stop too, succeeds when a path exists
    \* and the observer works
    /\ (wCall.op = "start" /\ wCall.before = <<>> /\ wCall.paths = "valid"
            /\ wCall.observer = "ok") =>
        (wCall.ret = "Ok" /\ wInst = <<wStarts>> /\ wTask = "select")

\* C26: at most one watcher instance exists; start while Running fails with
\* AlreadyRunning and leaves the running instance untouched; a start that
\* fails leaves the watcher Stopped; stop while Stopped is not fatal; after
\* stop, a later start succeeds
C26_StateMachine ==
    /\ WatcherCallRules
    /\ (wCall.op = "start" /\ wCall.before # <<>>) =>
        (wCall.ret = "AlreadyRunning" /\ wInst = wCall.before)

\* C26, amended: as C26, but a start while Running fails with AlreadyRunning
\* when its path list is not empty and with WatchPath when it is empty; in
\* both cases the running instance is untouched
C26_Amended ==
    /\ WatcherCallRules
    /\ (wCall.op = "start" /\ wCall.before # <<>>) =>
        /\ wCall.ret = (IF wCall.paths = "empty" THEN "WatchPath" ELSE "AlreadyRunning")
        /\ wInst = wCall.before

\* a start was refused with AlreadyRunning while the second instance, made
\* after a stop, was running
C26_Witness ==
    /\ wCall.op = "start"
    /\ wCall.ret = "AlreadyRunning"
    /\ wCall.before = <<2>>
    /\ wInst = <<2>>

\* ------------------------------------------------------------------------
\* The sync loop with the events it emits for a game it does not transfer
\* ------------------------------------------------------------------------
notEvents == <<dcore, rt, zip, wvars, cvars, yvars>>

ConflictEvent(g) == [name |-> "sync://conflict-detected", game |-> g]
ListErrorEvent(g) == [name |-> "sync://cloud-list-error", game |-> g]

\* the events of the Conflict arm and of the Noop arm of the match
NoEvents(g, kind) == <<>>
ArmEvents(g, kind) == IF kind = "Conflict" THEN <<ConflictEvent(g)>> ELSE <<>>

EmittedBy(g, kind) == ArmEvents(g, kind)

\* list_versions fails for the game: the event, then continue
CListError ==
    /\ Len(sLog) < MaxEvents
    /\ \E g \in SyncGames :
        /\ SyncListError(g)
        /\ sLog' = Append(sLog, ListErrorEvent(g))
    /\ UNCHANGED <<notEvents, hvars, qvars>>

\* the decision for the game is Conflict or Noop
CNoAction ==
    /\ \E g \in SyncGames :
        /\ SyncNoAction(g)
        /\ sLog' = sLog \o EmittedBy(g, DecisionFor(g).kind)
        /\ Len(sLog') <= MaxEvents
    /\ UNCHANGED <<notEvents, hvars, qvars>>

ConflictNext ==
    \/ SLoadFromDisk
    \/ SSyncTick
    \/ CListError
    \/ CNoAction
    \/ SSyncUpload
    \/ SSyncDownloadFail
    \/ SSyncDownloadOk
    \/ SAddJobSave
    \/ SProcCheckOnline
    \/ SProcPop
    \/ SProcIdleWake
    \/ SProcSetActive
    \/ SProcStartUpload
    \/ SProcUploadOk
    \/ SProcFinalSave
    \/ SProcClearActive
    \/ SProcEmitStatus

SpecConflict == SyncInit /\ [][ConflictNext]_vars

\* the loop ends its visit of game g with the version list it asked for
Decided(g) ==
    /\ AtGame(g)
    /\ sGames' = Tail(sGames)
    /\ sLog' # Append(sLog, ListErrorEvent(g))

\* the History store, the FIFO, the active slot and the persisted snapshot
TransferState == <<hCache, hLimit, hAuto, hDirs, hArch, hMeta, queue, active, qDisk>>

\* C27: a visit in which the decision for the game is Conflict or Noop
\* leaves the History store, the FIFO, the active slot and the persisted
\* snapshot unchanged and starts no download; for Conflict exactly one
\* conflict-detected event is emitted, with the game_id, and for Noop none
C27_NoMutation ==
    [][\A g \in SyncGames :
          (Decided(g) /\ DecisionFor(g).kind \in {"Conflict", "Noop"}) =>
              /\ UNCHANGED TransferState
              /\ sLog' = IF DecisionFor(g).kind = "Conflict"
                         THEN Append(sLog, ConflictEvent(g)) ELSE sLog]_vars

\* the log holds the event of a conflict, and the History store and the
\* queue are as they were at start
C27_Witness ==
    /\ sLog # <<>>
    /\ sLog[Len(sLog)].name = "sync://conflict-detected"
    /\ sPc = "wait"
    /\ jobs = <<>>


\* ---------------------------------------------------------------------
\* Settings and device identity (core/settings.rs, core/cloud.rs,
\* api/cloud_api.rs).  Device ids are naturals: EmptyId is the empty
\* string, ArgIds are ids that a caller or the server supplies, and
\* default_device_id yields ids that nothing else supplies.
\* ---------------------------------------------------------------------

notSettings == <<dcore, rt, zip, wvars, sLog, hvars, qvars, svars, yvars>>

ArgIds == 1..2
WriteOutcomes == {"written", "failed"}
Retentions == {MIN_RETENTION - 1, MIN_RETENTION, MAX_RETENTION, MAX_RETENTION + 1}
ApiKeys == 0..1

\* Uuid::new_v4(): the n-th generated id
default_device_id(n) == 10 + n

\* SettingsManager::validate
validate(settings) ==
    ~(settings.retention_limit < MIN_RETENTION \/ settings.retention_limit > MAX_RETENTION)

\* SettingsManager::update_settings on the store st = [mem, file]; io is
\* what fs::write does.  The guard is assigned before the file is written.
update_settings(st, settings, io) ==
    IF ~validate(settings)
    THEN [mem |-> st.mem, file |-> st.file, ret |-> "InvalidRetention", before |-> st.mem]
    ELSE IF io = "failed"
    THEN [mem |-> settings, file |-> st.file, ret |-> "Io", before |-> st.mem]
    ELSE [mem |-> settings, file |-> <<settings>>, ret |-> "Ok", before |-> st.mem]

\* ensure_device_identity: a store without device_id gets a generated one
ensure_device_identity(st, n, io) ==
    IF st.mem.device_id = EmptyId
    THEN LET u == update_settings(st, [st.mem EXCEPT !.device_id = default_device_id(n + 1)], io)
         IN  [mem |-> u.mem, file |-> u.file, call |-> [ret |-> u.ret, before |-> u.before],
              ok |-> u.ret = "Ok", uuids |-> n + 1]
    ELSE [mem |-> st.mem, file |-> st.file, call |-> setCall, ok |-> TRUE, uuids |-> n]

Store == [mem |-> setMem, file |-> setFile]

\* the end of a handler: u is the result of its last update_settings
Saved(u) ==
    /\ setMem' = u.mem
    /\ setFile' = u.file
    /\ setCall' = [ret |-> u.ret, before |-> u.before]

\* the end of a handler that stops after ensure_device_identity
Ensured(e) ==
    /\ setMem' = e.mem
    /\ setFile' = e.file
    /\ setCall' = e.call
    /\ cUuids' = e.uuids
    /\ cFirst' = IF cFirst = <<>> /\ e.ok THEN <<e.mem.device_id>> ELSE cFirst

\* the first run and every later start: ensure_device_identity alone
DevEnsure(io) ==
    /\ setMem.device_id = EmptyId => cUuids < MaxUuids
    /\ Ensured(ensure_device_identity(Store, cUuids, io))
    /\ UNCHANGED notSettings

\* HttpCloudBackend::login and ::signup: the device id that the server
\* answers with (server_id, an Option) replaces the local one
Authenticate(server_id, http_ok, io1, io2) ==
    /\ setMem.device_id = EmptyId => cUuids < MaxUuids
    /\ LET e == ensure_device_identity(Store, cUuids, io1)
       IN  IF ~e.ok \/ ~http_ok
           THEN Ensured(e)
           ELSE LET device_id == IF server_id # <<>> THEN server_id[1] ELSE e.mem.device_id
                    u == update_settings(e, [e.mem EXCEPT !.device_id = device_id, !.api_key = 1], io2)
                IN  /\ Saved(u)
                    /\ cUuids' = e.uuids
                    /\ cFirst' = IF cFirst = <<>> THEN <<e.mem.device_id>> ELSE cFirst
    /\ UNCHANGED notSettings

DevLogin ==
    \E server_id \in {<<>>} \cup {<<i>> : i \in ArgIds}, http_ok \in BOOLEAN, io1, io2 \in WriteOutcomes :
        Authenticate(server_id, http_ok, io1, io2)

DevSignup ==
    \E server_id \in {<<>>} \cup {<<i>> : i \in ArgIds}, http_ok \in BOOLEAN, io1, io2 \in WriteOutcomes :
        Authenticate(server_id, http_ok, io1, io2)

\* HttpCloudBackend::register_device(device_id, ...)
DevRegisterDevice ==
    /\ cFirst # <<>>
    /\ \E device_id \in ArgIds \cup {setMem.device_id}, io \in WriteOutcomes :
           Saved(update_settings(Store, [setMem EXCEPT !.device_id = device_id], io))
    /\ UNCHANGED <<cUuids, cFirst>>
    /\ UNCHANGED notSettings

\* HttpCloudBackend::remove_device(device_id): removing the device's own id
\* clears settings.cloud.device_id
DevRemoveDevice ==
    /\ cFirst # <<>>
    /\ \E device_id \in (ArgIds \cup {setMem.device_id}) \ {EmptyId}, io \in WriteOutcomes :
           IF setMem.device_id = device_id
           THEN Saved(update_settings(Store, [setMem EXCEPT !.device_id = EmptyId], io))
           ELSE UNCHANGED <<setMem, setFile, setCall>>
    /\ UNCHANGED <<cUuids, cFirst>>
    /\ UNCHANGED notSettings

\* update_cloud_config(new_config): the cloud block is replaced as a whole
DevUpdateCloudConfig ==
    /\ cFirst # <<>>
    /\ \E device_id \in ArgIds \cup {setMem.device_id, EmptyId}, api_key \in ApiKeys, io \in WriteOutcomes :
           Saved(update_settings(Store, [setMem EXCEPT !.device_id = device_id, !.api_key = api_key], io))
    /\ UNCHANGED <<cUuids, cFirst>>
    /\ UNCHANGED notSettings

\* update_app_settings: a retention limit chosen by the user
SetRetention ==
    /\ \E limit \in Retentions, io \in WriteOutcomes :
           Saved(update_settings(Store, [setMem EXCEPT !.retention_limit = limit], io))
    /\ UNCHANGED <<cUuids, cFirst>>
    /\ UNCHANGED notSettings

SettingsInit ==
    /\ SettingsIdle /\ LaterIdle
    /\ DecisionIdle /\ RoundTripIdle /\ UnzipIdle /\ WatcherIdle /\ EventsIdle
    /\ HistoryIdle /\ QueueIdle /\ SyncIdle

SettingsNext ==
    \/ DevEnsure("written")
    \/ DevEnsure("failed")
    \/ DevLogin
    \/ DevSignup
    \/ DevRegisterDevice
    \/ DevRemoveDevice
    \/ DevUpdateCloudConfig
    \/ SetRetention

SpecSettings == SettingsInit /\ [][SettingsNext]_vars

\* C28: once the first run has given the installation a device id,
\* settings.cloud.device_id is non-empty and keeps that value, whatever
\* login, signup, register_device, remove_device and update_cloud_config do.
C28_DeviceIdentity ==
    cFirst # <<>> => (setMem.device_id # EmptyId /\ setMem.device_id = cFirst[1])

\* the first run has completed and a later handler has saved the settings
C28_FirstRunDone == cFirst # <<>> /\ setCall.ret = "Ok" /\ setCall.before.device_id # EmptyId


\* C29: after every update_settings call, whatever its result, the settings
\* in memory are the contents of settings.json, and a call that returned an
\* error has left the settings in memory as they were before it.
C29_MemoryAndFile ==
    setCall.ret # "none" =>
        /\ setFile = <<setMem>>
        /\ setCall.ret # "Ok" => setMem = setCall.before

\* update_settings has returned an error of each kind
C29_Rejected == setCall.ret = "InvalidRetention" /\ setMem = setCall.before
C29_WriteFailed == setCall.ret = "Io" /\ setFile # <<setMem>>


\* ---------------------------------------------------------------------
\* The vector list_history returns (core/history.rs)
\* ---------------------------------------------------------------------

\* the vector returned by the list_history call that has just ended
Listed == hOp.seen[1]

NewestFirst(entries) ==
    \A i, j \in 1..Len(entries) : i < j => entries[i].ts >= entries[j].ts

DistinctVersions(entries) ==
    \A i, j \in 1..Len(entries) : i # j => entries[i].vid # entries[j].vid

Suspended(p) == pPc[p] \in {"backoff", "upload"}

\* C31: while the queue processor sleeps for a retry backoff or has an
\* upload in flight it does not hold the queue mutex, so add_job, get_status
\* and clear can take the mutex at once.
C31_NoLockAcrossSuspension ==
    \A p \in Procs : Suspended(p) => qLock # "proc"

\* a processor sleeps in its backoff with the guard of the queue mutex alive
C31_LockedBackoff == \E p \in Procs : pPc[p] = "backoff" /\ qLock = "proc"


\* ---------------------------------------------------------------------
\* One upload attempt: UploadQueue::perform_upload (core/sync.rs), step by
\* step.  up.log holds the requests sent and the events emitted by the
\* attempt, in order.
\* ---------------------------------------------------------------------

notUpload == <<dcore, rt, zip, wvars, sLog, cvars, hvars, qvars, svars, val, ws, ls, sv, au>>

\* worker_token of an UploadUrlResponse: Option<String>
Tokens == {<<>>, <<1>>, <<2>>}

Logged(entries) == up.log \o entries

\* emit_error and the return of Err
Failing(entries) ==
    [up EXCEPT !.log = Logged(entries \o <<"upload-error">>), !.pc = "returned", !.ret = "Err"]

\* the caller enters perform_upload for a job
UpStart ==
    /\ up.pc \in {"idle", "returned"}
    /\ up.n < MaxAttempts
    /\ up' = [NoAttempt EXCEPT !.pc = "preflight", !.n = up.n + 1,
                               !.prev = IF up.signed # <<>> THEN up.signed[1] ELSE up.prev]
    /\ UNCHANGED notUpload

\* settings, base url, token, hash and size of the archive
UpPreflight ==
    /\ up.pc = "preflight"
    /\ \E ok \in BOOLEAN :
           up' = IF ok THEN [up EXCEPT !.pc = "device"] ELSE Failing(<<>>)
    /\ UNCHANGED notUpload

\* ensure_registered_device_for_sync, then the progress event 0
UpDeviceCheck ==
    /\ up.pc = "device"
    /\ \E ok \in BOOLEAN :
           up' = IF ok
                 THEN [up EXCEPT !.log = Logged(<<"device", "progress-0">>), !.pc = "request_url"]
                 ELSE Failing(<<"device">>)
    /\ UNCHANGED notUpload

\* the payload as built before the url request, worker_token: None
UnsignedPayload(payload_token, signed) == payload_token

\* payload.worker_token = signed.worker_token.clone()
SignedPayload(payload_token, signed) == signed

\* backend.request_upload_url(payload)
UpRequestUrl ==
    /\ up.pc = "request_url"
    /\ \/ up' = Failing(<<"request-url">>)
       \/ \E worker_token \in Tokens :
              up' = [up EXCEPT !.log = Logged(<<"request-url">>), !.signed = <<worker_token>>,
                               !.pc = "put"]
    /\ UNCHANGED notUpload

\* fs::read of the archive and the PUT to the signed url
UpPut ==
    /\ up.pc = "put"
    /\ \/ up' = Failing(<<>>)
       \/ \E status \in {"transport_error", "http_status"} :
              up' = [Failing(<<"put">>) EXCEPT !.put = status]
       \/ up' = [up EXCEPT !.log = Logged(<<"put", "progress-80">>), !.put = "2xx",
                           !.pc = "notify"]
    /\ UNCHANGED notUpload

\* backend.notify_upload_complete(payload), then progress 100 and
\* sync://upload-complete
UpNotify ==
    /\ up.pc = "notify"
    /\ LET sent == <<SignedPayload(<<>>, up.signed[1])>>
       IN  \/ up' = [Failing(<<"notify">>) EXCEPT !.sent = sent]
           \/ up' = [up EXCEPT !.log = Logged(<<"notify", "progress-100", "upload-complete">>),
                               !.sent = sent, !.pc = "returned", !.ret = "Ok"]
    /\ UNCHANGED notUpload

UploadInit ==
    /\ UploadIdle /\ ValidationIdle /\ WritersIdle /\ ListingIdle /\ ServerIdle /\ AuthIdle
    /\ DecisionIdle /\ RoundTripIdle /\ UnzipIdle /\ WatcherIdle /\ EventsIdle /\ SettingsIdle
    /\ HistoryIdle /\ QueueIdle /\ SyncIdle

UploadNext ==
    \/ UpStart
    \/ UpPreflight
    \/ UpDeviceCheck
    \/ UpRequestUrl
    \/ UpPut
    \/ UpNotify

SpecUpload == UploadInit /\ [][UploadNext]_vars

Only(log, S) == SelectSeq(log, LAMBDA e : e \in S)
Count(log, e) == Len(Only(log, {e}))
IsPrefixOf(s, t) == Len(s) <= Len(t) /\ s = SubSeq(t, 1, Len(s))

Requests == {"device", "request-url", "put", "notify"}
Progress == {"progress-0", "progress-80", "progress-100"}

\* C32: the requests of one attempt go out in the order device check,
\* upload url, PUT, notify-upload; notify-upload follows a 2xx PUT and carries
\* the worker_token of this attempt's url response; progress is 0, 80, 100;
\* upload-complete is emitted exactly when notify-upload succeeded, and a
\* failed attempt emits one upload-error and no upload-complete.
C32_AttemptOrder ==
    /\ IsPrefixOf(Only(up.log, Requests), <<"device", "request-url", "put", "notify">>)
    /\ IsPrefixOf(Only(up.log, Progress), <<"progress-0", "progress-80", "progress-100">>)
    /\ Count(up.log, "notify") > 0 => (up.put = "2xx" /\ up.sent = up.signed)
    /\ Count(up.log, "upload-complete") > 0 <=> up.ret = "Ok"
    /\ up.ret = "Ok" =>
           (Count(up.log, "upload-complete") = 1 /\ Count(up.log, "upload-error") = 0
            /\ up.log[Len(up.log) - 2] = "notify")
    /\ up.ret = "Err" => Count(up.log, "upload-error") = 1
    /\ up.ret = "none" => Count(up.log, "upload-error") = 0

\* a second attempt that completed with another worker_token than the first
C32_Witness ==
    /\ up.n = 2 /\ up.ret = "Ok" /\ up.signed # <<up.prev>> /\ up.prev # <<>>

\* an attempt that failed at notify-upload
C32_FailedAtNotify == up.ret = "Err" /\ Count(up.log, "notify") = 1


\* ---------------------------------------------------------------------
\* Server-side validation (cloud/server/src/validation.rs).  A game id is
\* represented by its length in bytes, the only thing validate_game_id reads.
\* ---------------------------------------------------------------------

notValidation == <<dcore, rt, zip, wvars, sLog, cvars, hvars, qvars, svars, up, ws, ls, sv, au>>

GAME_ID_MAX == 256

\* !game_id.is_empty() && game_id.len() <= 256
validate_game_id(len) == ~(len = 0) /\ len <= GAME_ID_MAX

ValidationInit ==
    /\ \E len \in 0..MaxGameIdLen : val = [len |-> len, ret |-> <<>>]
    /\ UploadIdle /\ WritersIdle /\ ListingIdle /\ ServerIdle /\ AuthIdle
    /\ DecisionIdle /\ RoundTripIdle /\ UnzipIdle /\ WatcherIdle /\ EventsIdle /\ SettingsIdle
    /\ HistoryIdle /\ QueueIdle /\ SyncIdle

ValidateGameId ==
    /\ val.ret = <<>>
    /\ val' = [val EXCEPT !.ret = <<validate_game_id(val.len)>>]
    /\ UNCHANGED notValidation

ValidationNext == ValidateGameId

SpecValidation == ValidationInit /\ [][ValidationNext]_vars

\* C33: validate_game_id answers false for ids shorter than 3 and for ids
\* longer than 256 characters, and true for ids of 3 to 256 characters.
C33_GameIdLength ==
    val.ret # <<>> => (val.ret[1] <=> (val.len >= 3 /\ val.len <= 256))

\* an id of two characters was accepted
C33_ShortAccepted == val.len = 2 /\ val.ret = <<TRUE>>


\* ---------------------------------------------------------------------
\* Termination of the jobs of the upload queue
\* ---------------------------------------------------------------------

\* the k-th accepted job has reached Completed or was dropped as Failed
Settled(k) == k <= Len(jobs) /\ jobs[k].term # "none"

\* C34: if the connection eventually stays up, every job accepted by add_job
\* eventually is Completed or dropped as Failed, and an empty FIFO is
\* eventually followed by an empty active-job slot.
C34_EveryJobTerminates ==
    <>[]online =>
        /\ \A k \in 1..MaxJobs : [](k <= Len(jobs) => <>Settled(k))
        /\ [](queue = <<>> => <>(active = <<>>))


\* ---------------------------------------------------------------------
\* Concurrent read-modify-write sequences on the settings store
\* (api/cloud_api.rs update_cloud_mode, core/cloud.rs ensure_device_registered
\* and ensure_device_identity).  get_settings and update_settings each take
\* the mutex of the store; nothing covers the pair.
\* ---------------------------------------------------------------------

notWriters == <<dcore, rt, zip, wvars, sLog, cvars, hvars, qvars, svars, up, val, ls, sv, au>>

\* the field a writer changes
FieldOf(w, settings) ==
    IF w = "update_cloud_mode" THEN settings.cloud_mode
    ELSE IF w = "ensure_device_registered" THEN settings.has_registered_device
    ELSE settings.device_id

\* the values a writer may want to store, given the clone it holds
Wanted(w, snap, n) ==
    IF w = "update_cloud_mode" THEN Modes
    ELSE IF w = "ensure_device_registered"
    THEN IF ~snap.has_registered_device THEN {TRUE} ELSE {}
    ELSE IF snap.device_id = EmptyId THEN {default_device_id(n)} ELSE {}

\* the clone with the writer's change applied
Changed(w, snap, value) ==
    IF w = "update_cloud_mode" THEN [snap EXCEPT !.cloud_mode = value]
    ELSE IF w = "ensure_device_registered" THEN [snap EXCEPT !.has_registered_device = value]
    ELSE [snap EXCEPT !.device_id = value]

\* get_settings: the writer takes a clone; a writer that finds its field
\* already set returns without writing
WGet(w) ==
    /\ ws.task[w].pc = "idle"
    /\ ws.runs < MaxWrites
    /\ \/ /\ Wanted(w, ws.mem, ws.runs + 1) = {}
          /\ ws' = [ws EXCEPT !.runs = @ + 1]
       \/ \E value \in Wanted(w, ws.mem, ws.runs + 1) :
              ws' = [ws EXCEPT !.runs = @ + 1,
                               !.task[w] = [pc |-> "cloned", snap |-> ws.mem, target |-> <<value>>]]
    /\ UNCHANGED notWriters

\* update_settings with the changed clone
WUpdate(w) ==
    /\ ws.task[w].pc = "cloned"
    /\ LET u == update_settings([mem |-> ws.mem, file |-> ws.file],
                                Changed(w, ws.task[w].snap, ws.task[w].target[1]), "written")
       IN  ws' = [ws EXCEPT !.mem = u.mem, !.file = u.file, !.task[w].pc = "idle"]
    /\ UNCHANGED notWriters

WritersInit ==
    /\ WritersIdle /\ UploadIdle /\ ValidationIdle /\ ListingIdle /\ ServerIdle /\ AuthIdle
    /\ DecisionIdle /\ RoundTripIdle /\ UnzipIdle /\ WatcherIdle /\ EventsIdle /\ SettingsIdle
    /\ HistoryIdle /\ QueueIdle /\ SyncIdle

WritersNext ==
    \/ \E w \in Writers : WGet(w)
    \/ \E w \in Writers : WUpdate(w)

SpecWriters == WritersInit /\ [][WritersNext]_vars

\* every writer has returned
AllReturned == \A w \in Writers : ws.task[w].pc = "idle"

\* C35: when the concurrent writers have returned, the settings hold the
\* change of each of them: no write-back has reverted the field another
\* writer changed.
C35_NoLostUpdate ==
    AllReturned =>
        \A w \in Writers :
            ws.task[w].target # <<>> => FieldOf(w, ws.mem) = ws.task[w].target[1]

\* two writers hold clones at the same time
C35_Overlap ==
    \E v, w \in Writers : v # w /\ ws.task[v].pc = "cloned" /\ ws.task[w].pc = "cloned"


\* ---------------------------------------------------------------------
\* What save_to_history returns (core/history.rs)
\* ---------------------------------------------------------------------

\* HistoryManager::get_history_item on a cache: the first entry of the game
\* with the version_id, or NotFound
get_history_item(cache, g, v) ==
    IF g \notin DOMAIN cache THEN <<>>
    ELSE LET found == SelectSeq(cache[g], LAMBDA entry : entry.vid = v)
         IN  IF found = <<>> THEN <<>> ELSE <<found[1]>>

\* archive_path and metadata_path of the entry both name a file
BothFiles(arch, meta, e) ==
    /\ \E f \in arch : FileOf(f) = EntryFile(e)
    /\ \E m \in meta : FileOf(m) = EntryFile(e)

\* save_to_history returns Ok(entry) in this step, and the entry and its
\* files were in place when trim_cache_for_game began
SaveReturns ==
    /\ hSave # <<>> /\ hSave' = <<>>
    /\ get_history_item(hCache, hSave[1].game, hSave[1].vid) = hSave
    /\ BothFiles(hArch, hMeta, hSave[1])

\* C36: when save_to_history returns Ok(entry), get_history_item finds the
\* entry and both of its files are on disk, wherever its timestamp puts it
\* among the entries of a game that is at its retention limit.
C36_SavedIsRetrievable ==
    [][SaveReturns =>
          /\ get_history_item(hCache', hSave[1].game, hSave[1].vid) = hSave
          /\ BothFiles(hArch', hMeta', hSave[1])]_vars

\* a save into a game at its retention limit has returned and is retrievable:
\* the entry is the newest of the game, an older one was evicted for it
C36_NewestSaved ==
    /\ hOp.name = "trim" /\ hAuto /\ hOp.evicted # {}
    /\ \E g \in DOMAIN hCache :
           /\ Len(hCache[g]) = hLimit
           /\ \A r \in hOp.evicted : r.game = g /\ r.ts < hCache[g][1].ts


\* ---------------------------------------------------------------------
\* The upload queue while cloud mode is Off
\* ---------------------------------------------------------------------

\* update_cloud_mode: the mode is persisted and the matching backend installed
QSwitchMode ==
    /\ \E mode \in Modes : qMode' = mode
    /\ UNCHANGED <<queue, active, qDisk, qLock, online, notifyPermit, pPc, pJob, aPc, jobs,
                   qCompleted, qRetry, qOwed, qCrashes>>
    /\ UNCHANGED <<dvars, hvars, svars>>

\* one probe of the connectivity monitor: check_connection of the Disabled
\* backend answers Ok(false), that of an HTTP backend what the network gives
QModeProbe ==
    /\ \E connected \in (IF qMode = "Off" THEN {FALSE} ELSE BOOLEAN) : ProbeConnectivity(connected)
    /\ UNCHANGED <<dvars, hvars, svars>>

OffNext ==
    \/ QLoadFromDisk
    \/ QAddJobPush
    \/ QAddJobSave
    \/ QProcCheckOnline
    \/ QProcWaitForOnline
    \/ QProcAwaitOnline
    \/ QProcPop
    \/ QProcIdleWake
    \/ QProcSetActive
    \/ QProcStartUpload
    \/ QProcUploadOk
    \/ QProcUploadFail
    \/ QProcPushFront
    \/ QProcBackoffDone
    \/ QProcFinalSave
    \/ QProcClearActive
    \/ QProcEmitStatus
    \/ QSwitchMode
    \/ QModeProbe

SpecOff == QueueSpecInit /\ [][OffNext]_vars

\* the retries counters of the jobs the processors hold
HeldRetries(held) == [p \in Procs |-> IF held[p] = <<>> THEN 0 ELSE held[p][1].retries]

\* C37: in a step taken with cloud mode Off no upload attempt starts, no
\* job's retries counter grows, no job is dropped as Failed and no queued job
\* leaves the FIFO, so the jobs queued before the switch to Off are in the
\* FIFO when the mode is switched back.
C37_OffCostsNoJobs ==
    [][(qMode = "Off" /\ qMode' = "Off") =>
          /\ \A k \in 1..Len(jobs) :
                 /\ jobs'[k].attempts = jobs[k].attempts
                 /\ jobs'[k].term = "failed" => jobs[k].term = "failed"
          /\ \A p \in Procs : pJob[p] # <<>> /\ pJob'[p] # <<>> =>
                 HeldRetries(pJob')[p] = HeldRetries(pJob)[p]
          /\ \A i \in 1..Len(queue) : HasVersion(queue', queue[i].vid)]_vars

\* a job was dropped as Failed with cloud mode Off
C37_DroppedWhileOff == qMode = "Off" /\ \E k \in 1..Len(jobs) : jobs[k].term = "failed"


\* ---------------------------------------------------------------------
\* list_versions through the HTTP backend against the bundled server
\* (cloud/server/src/routes/save.rs handle_list_saves, core/cloud.rs
\* HttpCloudBackend::list_versions).  Game ids are strings over Chars.
\* ---------------------------------------------------------------------

notListing == <<dcore, rt, zip, wvars, sLog, cvars, hvars, qvars, svars, up, val, ws, sv, au>>

Chars == {"a", "b", "A"}
GameIds == UNION {[1..n -> Chars] : n \in 1..MaxIdChars}

\* str::to_lowercase
to_lowercase(s) == [i \in 1..Len(s) |-> IF s[i] = "A" THEN "a" ELSE s[i]]

\* str::contains
contains(hay, needle) ==
    \E k \in 0..(Len(hay) - Len(needle)) : SubSeq(hay, k + 1, k + Len(needle)) = needle

\* the filter of handle_list_saves
ListFilter(version, game_id) ==
    contains(to_lowercase(version.game_id), to_lowercase(game_id))

\* SaveVersionDto kept through the client's SaveListVersion: game_id is not
\* among the fields that CloudVersionSummary takes over
Summary(version) == [vid |-> version.vid, ts |-> version.ts]

\* handle_list_saves: 400 for a game_id of less than 3 characters, else the
\* matching versions, newest first
handle_list_saves(catalog, game_id) ==
    IF Len(game_id) < 3 THEN [ok |-> FALSE, versions |-> <<>>]
    ELSE [ok |-> TRUE,
          versions |-> SortDesc(SelectSeq(catalog, LAMBDA v : ListFilter(v, game_id)))]

\* HttpCloudBackend::list_versions without a limit: Err for a status that is
\* not a success, else the summaries sorted again
http_list_versions(catalog, game_id) ==
    LET resp == handle_list_saves(catalog, game_id)
    IN  IF ~resp.ok THEN [ok |-> FALSE, versions |-> <<>>]
        ELSE [ok |-> TRUE,
              versions |-> SortDesc([i \in 1..Len(resp.versions) |-> Summary(resp.versions[i])])]

\* the catalogs of one user: empty, or one version of one game
Catalogs ==
    {<<>>} \cup {<<[game_id |-> g, vid |-> 1, ts |-> 1]>> : g \in GameIds}

ListingInit ==
    /\ \E g \in GameIds, catalog \in Catalogs : ls = [game_id |-> g, catalog |-> catalog, ret |-> <<>>]
    /\ UploadIdle /\ ValidationIdle /\ WritersIdle /\ ServerIdle /\ AuthIdle
    /\ DecisionIdle /\ RoundTripIdle /\ UnzipIdle /\ WatcherIdle /\ EventsIdle /\ SettingsIdle
    /\ HistoryIdle /\ QueueIdle /\ SyncIdle

ListVersions ==
    /\ ls.ret = <<>>
    /\ ls' = [ls EXCEPT !.ret = <<http_list_versions(ls.catalog, ls.game_id)>>]
    /\ UNCHANGED notListing

ListingNext == ListVersions

SpecListing == ListingInit /\ [][ListingNext]_vars

\* the game of the catalog's version with this version_id
GameOfVersion(catalog, vid) ==
    catalog[CHOOSE i \in 1..Len(catalog) : catalog[i].vid = vid].game_id

\* C38: every version that list_versions(g) returns is a version of game g.
C38_ListingPerGame ==
    ls.ret # <<>> =>
        \A i \in 1..Len(ls.ret[1].versions) :
            GameOfVersion(ls.catalog, ls.ret[1].versions[i].vid) = ls.game_id

\* a listing that returned the version of the game asked for
C38_OwnVersion ==
    /\ ls.ret # <<>> /\ Len(ls.ret[1].versions) = 1 /\ ls.catalog[1].game_id = ls.game_id


\* ---------------------------------------------------------------------
\* The server's per-user objects (cloud/server/src/storage/mod.rs) and the
\* two handlers that rewrite them: handle_notify_upload (routes/save.rs)
\* and handle_register_device (routes/device.rs).  An object is <<>> while
\* absent and <<value>> once written; the handlers hold no lock.
\* ---------------------------------------------------------------------

notServer == <<dcore, rt, zip, wvars, sLog, cvars, hvars, qvars, svars, up, val, ws, ls, au>>

ReqKinds == {"notify", "register"}
ReqIds == 1..MaxRequests
GetOutcomes == {"ok", "err"}

\* serde_json::from_slice::<T> of a JSON object: every field of T must be
\* there, other fields are ignored
from_slice(json, fields) == fields \subseteq DOMAIN json

\* read_json::<T>: any error of get_object reads as an absent object, an
\* object that does not parse as T is an error
read_json(object, io, fields) ==
    IF io = "err" \/ object = <<>> THEN [err |-> FALSE, some |-> <<>>]
    ELSE IF from_slice(object[1], fields) THEN [err |-> FALSE, some |-> object]
    ELSE [err |-> TRUE, some |-> <<>>]

\* the list of a stored catalog or device list, Option::unwrap_or_default
\* for an absent one
unwrap_or_default(option, field) == IF option = <<>> THEN <<>> ELSE option[1][field]

\* the object a request works on, and the one field of its type
\* (UserSaveMetadata, UserDevices in types.rs; neither has a serde default)
ObjectOf(kind) == IF kind = "notify" THEN sv.saves ELSE sv.devices
FieldOfKind(kind) == IF kind = "notify" THEN "versions" ELSE "devices"

\* handle_notify_upload: retain the other version ids, insert the entry at 0
WithVersion(versions, vid) == <<vid>> \o SelectSeq(versions, LAMBDA v : v # vid)

\* handle_register_device: update the device in place, or push it
WithDevice(devices, device_id) ==
    IF \E i \in 1..Len(devices) : devices[i] = device_id THEN devices
    ELSE Append(devices, device_id)

Modified(kind, list, id) == IF kind = "notify" THEN WithVersion(list, id) ELSE WithDevice(list, id)

\* a request arrives and passes its validation
SvArrive(r, kind, id) ==
    /\ sv.req[r].pc = "idle"
    /\ sv' = [sv EXCEPT !.req[r] = [NoRequest EXCEPT !.pc = "arrived", !.kind = kind, !.id = id]]
    /\ UNCHANGED notServer

\* load_save_metadata / load_user_devices
SvLoad(r, io) ==
    /\ sv.req[r].pc = "arrived"
    /\ LET kind == sv.req[r].kind
           read == read_json(ObjectOf(kind), io, {FieldOfKind(kind)})
       IN  IF read.err
           THEN sv' = [sv EXCEPT !.req[r].pc = "returned", !.req[r].ret = "error"]
           ELSE sv' = [sv EXCEPT !.req[r].pc = "loaded",
                                 !.req[r].snap = unwrap_or_default(read.some, FieldOfKind(kind))]
    /\ UNCHANGED notServer

\* the change on the loaded copy, then save_save_metadata / save_user_devices
SvSave(r, io) ==
    /\ sv.req[r].pc = "loaded"
    /\ LET q == sv.req[r]
           object == <<[x \in {FieldOfKind(q.kind)} |-> Modified(q.kind, q.snap, q.id)]>>
       IN  IF io = "err"
           THEN sv' = [sv EXCEPT !.req[r].pc = "returned", !.req[r].ret = "error"]
           ELSE sv' = [sv EXCEPT !.req[r].pc = "returned", !.req[r].ret = "ok",
                                 !.saves = IF q.kind = "notify" THEN object ELSE @,
                                 !.devices = IF q.kind = "register" THEN object ELSE @]
    /\ UNCHANGED notServer

ServerInit ==
    /\ ServerIdle
    /\ UploadIdle /\ ValidationIdle /\ WritersIdle /\ ListingIdle /\ AuthIdle
    /\ DecisionIdle /\ RoundTripIdle /\ UnzipIdle /\ WatcherIdle /\ EventsIdle /\ SettingsIdle
    /\ HistoryIdle /\ QueueIdle /\ SyncIdle

ServerNext ==
    \/ \E r \in Reqs, kind \in ReqKinds, id \in ReqIds : SvArrive(r, kind, id)
    \/ \E r \in Reqs, io \in GetOutcomes : SvLoad(r, io)
    \/ \E r \in Reqs, io \in GetOutcomes : SvSave(r, io)

SpecServer == ServerInit /\ [][ServerNext]_vars

\* the ids of a stored catalog or device list
Stored(object, field) ==
    {unwrap_or_default(object, field)[i] : i \in 1..Len(unwrap_or_default(object, field))}

ReturnedOk(r) == sv.req[r].pc = "returned" /\ sv.req[r].ret = "ok"

\* C39: two requests of the same kind for different ids that both returned
\* ok have both left their id in the user's object.
C39_NoLostCatalogUpdate ==
    \A r1 \in Reqs, r2 \in Reqs :
        (/\ r1 # r2 /\ ReturnedOk(r1) /\ ReturnedOk(r2)
         /\ sv.req[r1].kind = sv.req[r2].kind /\ sv.req[r1].id # sv.req[r2].id)
        => {sv.req[r1].id, sv.req[r2].id} \subseteq Stored(ObjectOf(sv.req[r1].kind), FieldOfKind(sv.req[r1].kind))

\* two notify-upload requests for different versions returned ok and both
\* versions are in the catalog
C39_BothStored ==
    /\ ReturnedOk(1) /\ ReturnedOk(2)
    /\ sv.req[1].kind = "notify" /\ sv.req[2].kind = "notify"
    /\ Stored(sv.saves, "versions") = {1, 2}


\* ---------------------------------------------------------------------
\* Accounts of the bundled server (cloud/server/src/routes/auth.rs):
\* handle_signup and handle_login over the email_lookup objects.  lookup
\* and users are maps from a key to the JSON object stored under it.
\* ---------------------------------------------------------------------

notAuth == <<dcore, rt, zip, wvars, sLog, cvars, hvars, qvars, svars, up, val, ws, ls, sv>>

\* passwords of 8 characters or more
Passwords == {1, 2}
WriteFailures == {"none", "user", "lookup"}

\* the fields of UserMetadata (types.rs); none has a serde default
UserMetadataFields == {"user_id", "email", "password_hash", "created_at", "updated_at", "devices"}

\* str::trim
RECURSIVE trim(_)
trim(s) ==
    IF s = <<>> THEN s
    ELSE IF Head(s) = " " THEN trim(Tail(s))
    ELSE IF s[Len(s)] = " " THEN trim(SubSeq(s, 1, Len(s) - 1))
    ELSE s

normalize_email(email) == to_lowercase(trim(email))

validate_email(email) ==
    /\ email # <<>>
    /\ contains(email, <<"@">>) /\ contains(email, <<".">>)
    /\ Head(email) # "@" /\ email[Len(email)] # "@"

\* bcrypt: the hash is not the password, and verifies the password it was made of
hash_password(password) == <<"bcrypt", password>>
verify_password(password, hash) == hash = hash_password(password)

\* the object under a key of a map, as get_object finds it
ObjectAt(map, key) == IF key \in DOMAIN map THEN <<map[key]>> ELSE <<>>
Put(map, key, json) == [k \in DOMAIN map \cup {key} |-> IF k = key THEN json ELSE map[k]]

\* get_user_by_email: read_json::<UserMetadata> of the lookup object; an
\* error reads as no user
get_user_by_email(lookup, email, io) == read_json(ObjectAt(lookup, email), io, UserMetadataFields).some

\* save_email_lookup: the JSON object it writes
LookupJson(email, user_id) == [user_id |-> user_id, email |-> email]

Called(op, email, password, io, ret, user_id) ==
    [op |-> op, email |-> email, password |-> password, io |-> io, ret |-> ret, user_id |-> user_id]

\* handle_signup without a device_id
AuSignup(raw, password, io, fail) ==
    /\ Len(au.calls) < MaxCalls
    /\ LET email == normalize_email(raw)
           user_id == au.uuids + 1
           metadata == [user_id |-> user_id, email |-> email,
                        password_hash |-> hash_password(password),
                        created_at |-> 0, updated_at |-> 0, devices |-> 0]
           Return(ret, id) == Append(au.calls, Called("signup", email, password, io, ret, id))
       IN  IF ~validate_email(email)
           THEN au' = [au EXCEPT !.calls = Return("invalid_email", 0)]
           ELSE IF get_user_by_email(au.lookup, email, io) # <<>>
           THEN au' = [au EXCEPT !.calls = Return("email_already_registered", 0)]
           ELSE IF fail = "user"
           THEN au' = [au EXCEPT !.uuids = user_id, !.calls = Return("internal_error", 0)]
           ELSE IF fail = "lookup"
           THEN au' = [au EXCEPT !.uuids = user_id, !.users = Put(@, user_id, metadata),
                                 !.calls = Return("internal_error", 0)]
           ELSE au' = [au EXCEPT !.uuids = user_id, !.users = Put(@, user_id, metadata),
                                 !.lookup = Put(@, email, LookupJson(email, user_id)),
                                 !.calls = Return("ok", user_id)]
    /\ UNCHANGED notAuth

\* handle_login without a device_id
AuLogin(raw, password, io) ==
    /\ Len(au.calls) < MaxCalls
    /\ LET email == normalize_email(raw)
           user == get_user_by_email(au.lookup, email, io)
           Return(ret, id) == Append(au.calls, Called("login", email, password, io, ret, id))
       IN  IF ~validate_email(email) \/ user = <<>>
           THEN au' = [au EXCEPT !.calls = Return("invalid_credentials", 0)]
           ELSE IF ~verify_password(password, user[1].password_hash)
           THEN au' = [au EXCEPT !.calls = Return("invalid_credentials", 0)]
           ELSE au' = [au EXCEPT !.calls = Return("ok", user[1].user_id)]
    /\ UNCHANGED notAuth

AuthInit ==
    /\ AuthIdle
    /\ UploadIdle /\ ValidationIdle /\ WritersIdle /\ ListingIdle /\ ServerIdle
    /\ DecisionIdle /\ RoundTripIdle /\ UnzipIdle /\ WatcherIdle /\ EventsIdle /\ SettingsIdle
    /\ HistoryIdle /\ QueueIdle /\ SyncIdle

AuthNext ==
    \/ \E raw \in RawEmails, password \in Passwords, io \in GetOutcomes, fail \in WriteFailures :
           AuSignup(raw, password, io, fail)
    \/ \E raw \in RawEmails, password \in Passwords, io \in GetOutcomes : AuLogin(raw, password, io)

SpecAuth == AuthInit /\ [][AuthNext]_vars

\* C40: after a signup that returned ok, and while every read of the storage
\* succeeds, a later call for the same email is, if a login with the same
\* password, ok for the same user_id, and if a signup, rejected as already
\* registered.
C40_SignupThenLogin ==
    \A i \in 1..Len(au.calls), j \in 1..Len(au.calls) :
        LET signup == au.calls[i]
            later == au.calls[j]
        IN  (/\ i < j /\ signup.op = "signup" /\ signup.ret = "ok"
             /\ later.email = signup.email
             /\ \A k \in (i + 1)..j : au.calls[k].io = "ok")
            => /\ (later.op = "login" /\ later.password = signup.password)
                      => (later.ret = "ok" /\ later.user_id = signup.user_id)
               /\ later.op = "signup" => later.ret = "email_already_registered"

\* a signup that returned ok, and a login with its email and password after it
C40_LoginAfterSignup ==
    \E i \in 1..Len(au.calls), j \in 1..Len(au.calls) :
        /\ i < j /\ au.calls[i].op = "signup" /\ au.calls[i].ret = "ok"
        /\ au.calls[j].op = "login" /\ au.calls[j].email = au.calls[i].email
        /\ au.calls[j].password = au.calls[i].password /\ au.calls[j].io = "ok"

====
